---- MODULE Spec2Model ----
(***************************************************************************)
(* Order-fulfilment backend: the asynchronous order pipeline               *)
(* (core/tasks.py process_order, api/views.py OrderViewSet, core/admin.py  *)
(* OrderAdmin) over the Order and Product tables, and the token-bucket     *)
(* throttle (api/throttling.py).                                           *)
(*                                                                         *)
(* Granularity: one action per database statement or queue operation of a  *)
(* handler, so that the interleavings of concurrent workers and requests   *)
(* are those the code allows.  A model instance (order.save()) writes all  *)
(* the fields of the in-memory object, so every process keeps its own copy *)
(* of the row it loaded.                                                   *)
(***************************************************************************)
EXTENDS Integers, Sequences, FiniteSets, TLC

\* ---------------------------------------------------------------- bounds
MaxOrders == 2      \* order rows ever created
NumWorkers == 2     \* celery worker processes
NumClients == 2     \* concurrent retry requests (API or admin)
MaxStock == 10      \* largest stock value a product is given
MaxQty == 6         \* largest quantity a client asks for
MaxRetries == 2     \* accepted retries over the whole run
MaxUploads == 1     \* product upload rows processed over the whole run
MaxAge == 11        \* longest time between two writes of a bucket, in ticks
MaxBack == 2        \* furthest the clock is set back at once, in ticks
MaxSetBacks == 1    \* times the clock is set back in a run
MaxExtra == 3       \* allow_request calls of a run beyond the limiter's capacity
NumRequests == 2    \* allow_request calls of one identity in progress at once
MaxMoves == 2       \* clock movements in a run of several identities
MaxLongWaits == 1   \* waits of half the cache timeout or more in a run of one identity
MaxExports == 1     \* export rows ever created
MaxRedeliveries == 1 \* process_order messages the broker delivers a second time
MaxCodes == 2        \* values the 8 hexadecimal digits of a reference code take
MaxApi == 2          \* API requests begun in a run with profiles
BlockThreshold == 3  \* admin.py 78: failed orders at which the admin action blocks a profile
MaxIds == 3         \* longest list of order ids handed to generate_export

\* core/models.py Product: the rows of the Product table that hold stock
Products == {"p1", "p2"}
\* the product every order is for in the runs with one product
Ordered == {"p1"}
Workers == 1..NumWorkers
Clients == 1..NumClients
OrderIds == 1..MaxOrders
ExportIds == 1..MaxExports
\* the quantities a client sends: 0 is refused by the serializer
Quantities == {0, 4, MaxQty}
\* the stock values of the catalogue and of upload rows: -1 is refused
StockValues == {-1, 4}

VARIABLES
  orders,     \* Order table: order id -> row
  stock,      \* Product table: product -> stock_quantity
  lock,       \* product row lock: product -> holding worker, 0 when free
  queue,      \* broker: order id -> process_order messages not yet taken
  worker,     \* worker -> position in process_order and its in-memory objects
  client,     \* retry request -> position and the orders it is about
  base,       \* history: product -> stock when its reservation sequence began
  resLog,     \* history: product -> reservations committed, in commit order
  submitted,  \* history: order id -> process_order.delay calls
  accepted,   \* history: order id -> retries accepted
  nUploads,   \* history: upload rows processed
  carried,    \* history: the read-only fields the last creation request carried
  exports,    \* Export table: export id -> row
  storage,    \* file storage: export id -> lines of export_<id>.csv, <<>> for no file
  xqueue,     \* broker: generate_export messages not yet taken
  xworker,    \* the worker running generate_export: position and in-memory objects
  xresult,    \* history: export id -> what its generate_export run returned
  redelivered, \* history: process_order messages delivered a second time
  profiles,   \* Profile table: user -> row, or no row
  catalogue,  \* Product table: sku -> company and is_active
  creator,    \* Order.created_by: order id -> user
  priorFailed, \* user -> failed orders of the profile older than the Order table kept here
  api,        \* the API request in flight: position, user, endpoint and the profile it loaded
  response,   \* history: the last API response
  nApi,       \* history: API requests begun
  window,     \* history: the calls, admissions and ticks since an interval began
  cache,      \* django cache: key -> tokens stored and age of the entry in ticks
  focus,      \* the limiter class the requests of the run go through
  allowed,    \* what the last allow_request returned ("none" before the first)
  phase,      \* history: where the run is in the burst / wait / after scenario
  burst,      \* history: calls and admissions while no time has passed
  after,      \* history: calls and admissions at the first instant after the wait
  waited,     \* history: the length of the wait, in ticks
  setBacks,   \* history: times the clock was set back
  req,        \* request -> position in allow_request and the bucket it read
  admits,     \* history: requests admitted since the bucket was created
  lifetime,   \* history: ticks since the bucket was created
  superusers, \* the users whose is_superuser is set
  shadow,     \* history: the cache of the same run without the observed calls
  agree,      \* history: the other calls were answered as in the run without
  nMoves,     \* history: clock movements
  caller,     \* history: the limiter and user of the last call, <<>> for none
  sinceCall   \* history: ticks since the last call of the observed identity

exportVars == <<exports, storage, xqueue, xworker, xresult>>
pipelineVars == <<orders, stock, lock, queue, worker, client, base, resLog,
                  submitted, accepted, nUploads, carried>>
accessVars == <<profiles, catalogue, creator, priorFailed, api, response, nApi>>
envVars == <<redelivered, accessVars, window>>
orderVars == <<pipelineVars, exportVars, envVars>>
concVars == <<req, admits, lifetime>>
indVars == <<superusers, shadow, agree, nMoves, caller, sinceCall>>
throttleVars == <<cache, focus, allowed, phase, burst, after, waited, setBacks, concVars, indVars>>
vars == <<orderVars, throttleVars>>

\* ------------------------------------------------------------ the tables
\* core/models.py Order: the fields the pipeline reads and writes
OrderRow(p, q) ==
  [status |-> "pending", has_been_processed |-> FALSE, product |-> p, quantity |-> q,
   reference_code |-> <<>>]

\* serializers.py 32, 54: f"ORD-{uuid.uuid4().hex[:8].upper()}", for the value n
\* of the eight digits
RefCode(n) == <<"ORD-", n>>
RefCodes == 1..MaxCodes

Statuses == {"pending", "processing", "approved", "failed"}

\* core/models.py Profile, Product: the users (u0 has no profile), the
\* companies, the roles and the skus of the Product table
Accounts == {"u0", "u1", "u2"}
Companies == {"c1", "c2"}
Roles == {"admin", "operator", "viewer"}
Catalogue == Products \cup {"p3"}
NoProfile == [exists |-> FALSE, company |-> "", role |-> "", is_blocked |-> FALSE]
ProfileRow(c, r) == [exists |-> TRUE, company |-> c, role |-> r, is_blocked |-> FALSE]
ProductRow(c, active) == [company |-> c, is_active |-> active]
Catalogues == [Catalogue -> [company : Companies, is_active : BOOLEAN]]

\* an interval that begins now: no call, no admission, no time passed in small
\* steps (fine) or in all (ticks); zero tells that it began when the bucket
\* had just been emptied
NoWindow == [calls |-> 0, admitted |-> 0, fine |-> 0, ticks |-> 0, zero |-> FALSE]

\* what a request names: a sku, a quantity, an order id
NoArg == [product |-> "", quantity |-> 0, order |-> 0]
IdleApi == [pc |-> "idle", user |-> "", endpoint |-> "", arg |-> NoArg, profile |-> NoProfile, slot |-> 0]
NoResponse == [user |-> "", endpoint |-> "", arg |-> NoArg, code |-> 0, body |-> {}]

\* What a creation request carries besides product and quantity: values for
\* status and has_been_processed, and which of the two it includes (`given`)
ReadOnlyFields == {"status", "has_been_processed", "reference_code"}
NoExtra ==
  [status |-> "pending", has_been_processed |-> FALSE, reference_code |-> <<>>, given |-> {}]
\* the reference codes a client writes into its request: one of its own making
\* and one in the server's format
ClientCodes == {<<"MINE-", 1>>, RefCode(1)}
ClientExtras ==
  [status : Statuses, has_been_processed : BOOLEAN, reference_code : ClientCodes,
   given : SUBSET ReadOnlyFields]

\* no row loaded
NoRow ==
  [status |-> "none", has_been_processed |-> FALSE, product |-> "none", quantity |-> 0,
   reference_code |-> <<>>]

\* a worker between jobs; result is what its last run of process_order returned:
\* "processed" (tasks.py 66), "not_found" (70), "error" (73).  decision is the
\* branch the running job took at tasks.py 38: "approve", "fail", "none" before
Idle(result) ==
  [pc |-> "idle", oid |-> 0, order |-> NoRow, pstock |-> 0, result |-> result, decision |-> "none"]
IdleWorker == Idle("none")
IdleClient == [pc |-> "idle", todo |-> {}, rows |-> <<>>]

\* core/models.py Export: the fields generate_export reads and writes; file is
\* the export id whose export_<id>.csv the row refers to, 0 for no file
PendingExport == [status |-> "pending", file |-> 0, note |-> ""]
IdleExportWorker == [pc |-> "idle", eid |-> 0, ids |-> <<>>, export |-> PendingExport]

RECURSIVE SumSeq(_)
SumSeq(s) == IF s = <<>> THEN 0 ELSE Head(s) + SumSeq(Tail(s))

Max(S) == CHOOSE x \in S : \A y \in S : y <= x

TotalAccepted == SumSeq([o \in OrderIds |-> accepted[o]])

\* Workers are interchangeable, and so are request threads: the free one with
\* the lowest number serves next
FirstIdle(procs) == {x \in DOMAIN procs : procs[x].pc = "idle" /\ \A y \in DOMAIN procs : procs[y].pc = "idle" => x <= y}

\* the call returns without a message on the broker
SubmitNothing(q, o) == q

\* process_order.delay(order.id): one message on the broker
Submit(q, o) == [q EXCEPT ![o] = @ + 1]

\* the delay calls made so far, given the broker after this step
Delivered(q) == [o \in OrderIds |-> submitted[o] + (q[o] - queue[o])]

\* ------------------------------------------------------------------ Init
OrderInit ==
  /\ orders = <<>>
  /\ stock = [p \in Products |-> MaxStock]
  /\ lock = [p \in Products |-> 0]
  /\ queue = [o \in OrderIds |-> 0]
  /\ worker = [w \in Workers |-> IdleWorker]
  /\ client = [c \in Clients |-> IdleClient]
  /\ base = stock
  /\ resLog = [p \in Products |-> <<>>]
  /\ submitted = [o \in OrderIds |-> 0]
  /\ accepted = [o \in OrderIds |-> 0]
  /\ nUploads = 0
  /\ carried = NoExtra
  /\ exports = <<>>
  /\ storage = [e \in ExportIds |-> <<>>]
  /\ xqueue = {}
  /\ xworker = IdleExportWorker
  /\ xresult = [e \in ExportIds |-> "none"]
  /\ redelivered = 0

\* one profile in each company, every product active and of the first company
AccessIdle ==
  /\ profiles = [u \in Accounts |-> CASE u = "u1" -> ProfileRow("c1", "operator")
                                   [] u = "u2" -> ProfileRow("c2", "operator")
                                   [] OTHER -> NoProfile]
  /\ catalogue = [p \in Catalogue |-> ProductRow("c1", TRUE)]
  /\ creator = [o \in OrderIds |-> ""]
  /\ priorFailed = [u \in Accounts |-> 0]
  /\ api = IdleApi
  /\ response = NoResponse
  /\ nApi = 0
  /\ window = NoWindow

\* -------------------------------------------------------- order creation
\* serializers.py: quantity has MinValueValidator(1)
ValidQuantity(q) == q >= 1

\* the serializer passes on every field the request includes
ValidatedAll(extra) == extra

\* serializers.py 28: the read_only_fields are left out of validated_data
Validated(extra) == [extra EXCEPT !.given = @ \ ReadOnlyFields]

\* serializers.py 35, 56 with models.py 78, 80: Order.objects.create(**data),
\* the fields that are not in data taking their defaults
ModelCreate(p, q, data) ==
  [status |-> IF "status" \in data.given THEN data.status ELSE OrderRow(p, q).status,
   has_been_processed |-> IF "has_been_processed" \in data.given
                            THEN data.has_been_processed
                            ELSE OrderRow(p, q).has_been_processed,
   product |-> p, quantity |-> q,
   reference_code |-> IF "reference_code" \in data.given
                        THEN data.reference_code
                        ELSE OrderRow(p, q).reference_code]

\* serializers.py 32, 55: validated_data['reference_code'] = the generated code
Generated(data, n) ==
  [data EXCEPT !.reference_code = RefCode(n), !.given = @ \cup {"reference_code"}]

\* the uniqueness check left out
CodeFreeAny(table, code) == TRUE

\* models.py 75, unique=True: the insert is accepted when no row has the code,
\* and raises IntegrityError otherwise
CodeFree(table, code) == \A o \in DOMAIN table : table[o].reference_code # code

\* The draw of a run in which no two generated codes coincide: the k-th order
\* gets the k-th value
NextCode(table) == Len(table) + 1

\* views.py perform_create: serializer.save() then process_order.delay, for a
\* request that carries `extra` and a generated code of digits n.  When the
\* insert raises, the request ends with an error and nothing is submitted.
CreateOrderCode(p, q, extra, n) ==
  /\ Len(orders) < MaxOrders
  /\ IF ValidQuantity(q) /\ CodeFree(orders, RefCode(n))
       THEN LET o == Len(orders) + 1 IN
            /\ orders' = Append(orders, ModelCreate(p, q, Generated(Validated(extra), n)))
            /\ queue' = Submit(queue, o)
            /\ submitted' = Delivered(queue')
       ELSE UNCHANGED <<orders, queue, submitted>>
  /\ carried' = extra
  /\ UNCHANGED <<stock, lock, worker, client, base, resLog, accepted, nUploads>>

CreateOrderWith(p, q, extra) == CreateOrderCode(p, q, extra, NextCode(orders))

\* a request with product and quantity only
CreateOrder(p, q) == CreateOrderWith(p, q, NoExtra)

\* only the newest order of the request is submitted
SubmitNewest(q, ids) == IF ids = {} THEN q ELSE Submit(q, Max(ids))

\* the orders a bulk request of `items` creates, each submitted once
RECURSIVE SubmitAll(_, _)
SubmitAll(q, ids) ==
  IF ids = {} THEN q ELSE LET o == Max(ids) IN SubmitAll(Submit(q, o), ids \ {o})

\* serializers.py 54-56: the loop of BulkOrderSerializer.create, one insert per
\* item with the code drawn for it; it stops at the first insert that raises
RECURSIVE Inserted(_, _, _, _)
Inserted(table, items, data, codes) ==
  IF items = <<>> \/ ~CodeFree(table, RefCode(Head(codes)))
    THEN table
    ELSE Inserted(Append(table, ModelCreate(Head(items)[1], Head(items)[2],
                                            Generated(data, Head(codes)))),
                  Tail(items), data, Tail(codes))

\* views.py bulk_create: every item is validated, then every order is created,
\* then one job is submitted per created order; every item of the request
\* carries `extra`, and codes are the digits drawn for the items.  When an
\* insert raises, the request ends with an error before any job is submitted;
\* the rows inserted before it stay (kept) unless the request runs in one
\* transaction, which the settings decide.
BulkCreateCodes(items, extra, codes, kept) ==
  /\ Len(orders) + Len(items) <= MaxOrders
  /\ IF \A i \in 1..Len(items) : ValidQuantity(items[i][2])
       THEN LET n == Len(orders)
                ids == (n + 1)..(n + Len(items))
                table == Inserted(orders, items, Validated(extra), codes) IN
            IF Len(table) = n + Len(items)
              THEN /\ orders' = table
                   /\ queue' = SubmitAll(queue, ids)
                   /\ submitted' = Delivered(queue')
              ELSE /\ orders' = IF kept THEN table ELSE orders
                   /\ UNCHANGED <<queue, submitted>>
       ELSE UNCHANGED <<orders, queue, submitted>>
  /\ carried' = extra
  /\ UNCHANGED <<stock, lock, worker, client, base, resLog, accepted, nUploads>>

BulkCreateWith(items, extra) ==
  BulkCreateCodes(items, extra, [i \in 1..Len(items) |-> Len(orders) + i], TRUE)

\* a request whose items have product and quantity only
BulkCreate(items) == BulkCreateWith(items, NoExtra)

\* the missing order left to the handler of every other exception
TakeJobMissingIsError(w, o) ==
  /\ w \in FirstIdle(worker)
  /\ queue[o] > 0
  /\ queue' = [queue EXCEPT ![o] = @ - 1]
  /\ worker' = [worker EXCEPT ![w] =
       IF o \in DOMAIN orders
         THEN [pc |-> "mark", oid |-> o, order |-> orders[o], pstock |-> 0, result |-> "none",
               decision |-> "none"]
         ELSE Idle("error")]
  /\ UNCHANGED <<orders, stock, lock, client, base, resLog, submitted, accepted, nUploads>>

\* ----------------------------------------------------------- process_order
\* tasks.py 26: Order.objects.get(id=order_id), by the worker that takes the job
TakeJob(w, o) ==
  /\ w \in FirstIdle(worker)
  /\ queue[o] > 0
  /\ queue' = [queue EXCEPT ![o] = @ - 1]
  /\ worker' = [worker EXCEPT ![w] =
       IF o \in DOMAIN orders
         THEN [pc |-> "mark", oid |-> o, order |-> orders[o], pstock |-> 0, result |-> "none",
               decision |-> "none"]
         ELSE Idle("not_found")]
  /\ UNCHANGED <<orders, stock, lock, client, base, resLog, submitted, accepted, nUploads>>

\* the status set to processing in memory only, without the save of line 30
MarkProcessingUnsaved(w, approve) ==
  /\ worker[w].pc = "mark"
  /\ LET row == [worker[w].order EXCEPT !.status = "processing"] IN
     /\ worker' = [worker EXCEPT
          ![w].order = IF approve THEN row ELSE [row EXCEPT !.status = "failed"],
          ![w].decision = IF approve THEN "approve" ELSE "fail",
          ![w].pc = IF approve THEN "lock" ELSE "final"]
  /\ UNCHANGED <<orders, stock, lock, queue, client, base, resLog, submitted, accepted, nUploads>>

\* the failure decision entering the atomic block like the approval
MarkProcessingThenLock(w, approve) ==
  /\ worker[w].pc = "mark"
  /\ LET row == [worker[w].order EXCEPT !.status = "processing"] IN
     /\ orders' = [orders EXCEPT ![worker[w].oid] = row]
     /\ worker' = [worker EXCEPT
          ![w].order = row,
          ![w].decision = IF approve THEN "approve" ELSE "fail",
          ![w].pc = "lock"]
  /\ UNCHANGED <<stock, lock, queue, client, base, resLog, submitted, accepted, nUploads>>

\* tasks.py 29-38, 55-58: order.status = 'processing'; order.save(); then the
\* simulated call and random.random() < 0.7, which touch no shared state: on the
\* failure decision the in-memory status becomes 'failed'
MarkProcessing(w, approve) ==
  /\ worker[w].pc = "mark"
  /\ LET row == [worker[w].order EXCEPT !.status = "processing"] IN
     /\ orders' = [orders EXCEPT ![worker[w].oid] = row]
     /\ worker' = [worker EXCEPT
          ![w].order = IF approve THEN row ELSE [row EXCEPT !.status = "failed"],
          ![w].decision = IF approve THEN "approve" ELSE "fail",
          ![w].pc = IF approve THEN "lock" ELSE "final"]
  /\ UNCHANGED <<stock, lock, queue, client, base, resLog, submitted, accepted, nUploads>>

\* select_for_update left out: the read never waits
LockFreeUnlocked(p) == TRUE

\* select_for_update: the row lock is granted when no transaction holds it
LockFree(p) == lock[p] = 0

\* tasks.py 40-42: transaction.atomic(); Product.objects.select_for_update().get
LockProduct(w) ==
  /\ worker[w].pc = "lock"
  /\ LET p == worker[w].order.product IN
     /\ LockFree(p)
     /\ lock' = [lock EXCEPT ![p] = w]
     /\ worker' = [worker EXCEPT ![w].pc = "reserve", ![w].pstock = stock[p]]
  /\ UNCHANGED <<orders, stock, queue, client, base, resLog, submitted, accepted, nUploads>>

\* the stock comparison off by one
SufficientStrict(have, want) == have > want

\* tasks.py 45: the stock check
Sufficient(have, want) == have >= want

\* the deduction made on every product that has the stock
ReserveEveryProduct(w) ==
  /\ worker[w].pc = "reserve"
  /\ LET p == worker[w].order.product
         q == worker[w].order.quantity
         ok == Sufficient(worker[w].pstock, q) IN
     /\ stock' = IF ok THEN [x \in Products |-> IF Sufficient(stock[x], q) THEN stock[x] - q ELSE stock[x]]
                       ELSE stock
     /\ lock' = [lock EXCEPT ![p] = IF @ = w THEN 0 ELSE @]
     /\ resLog' = [resLog EXCEPT ![p] =
                     Append(@, [oid |-> worker[w].oid, quantity |-> q, ok |-> ok])]
     /\ worker' = [worker EXCEPT
          ![w].pc = "final",
          ![w].pstock = 0,
          ![w].order.status = IF ok THEN "approved" ELSE "failed"]
  /\ UNCHANGED <<orders, queue, client, base, submitted, accepted, nUploads>>

\* the transaction ending without giving the row lock back
ReserveKeepsLock(w) ==
  /\ worker[w].pc = "reserve"
  /\ LET p == worker[w].order.product
         q == worker[w].order.quantity
         ok == Sufficient(worker[w].pstock, q) IN
     /\ stock' = IF ok THEN [stock EXCEPT ![p] = worker[w].pstock - q] ELSE stock
     /\ resLog' = [resLog EXCEPT ![p] =
                     Append(@, [oid |-> worker[w].oid, quantity |-> q, ok |-> ok])]
     /\ worker' = [worker EXCEPT
          ![w].pc = "final",
          ![w].pstock = 0,
          ![w].order.status = IF ok THEN "approved" ELSE "failed"]
  /\ UNCHANGED <<orders, lock, queue, client, base, submitted, accepted, nUploads>>

\* tasks.py 45-54 and the commit that ends the atomic block: product.save()
\* writes the value the worker computed from the row it read
Reserve(w) ==
  /\ worker[w].pc = "reserve"
  /\ LET p == worker[w].order.product
         q == worker[w].order.quantity
         ok == Sufficient(worker[w].pstock, q) IN
     /\ stock' = IF ok THEN [stock EXCEPT ![p] = worker[w].pstock - q] ELSE stock
     /\ lock' = [lock EXCEPT ![p] = IF @ = w THEN 0 ELSE @]
     /\ resLog' = [resLog EXCEPT ![p] =
                     Append(@, [oid |-> worker[w].oid, quantity |-> q, ok |-> ok])]
     /\ worker' = [worker EXCEPT
          ![w].pc = "final",
          ![w].pstock = 0,
          ![w].order.status = IF ok THEN "approved" ELSE "failed"]
  /\ UNCHANGED <<orders, queue, client, base, submitted, accepted, nUploads>>

\* the flag left unset when the outcome is saved
FinishNoFlag(w) ==
  /\ worker[w].pc = "final"
  /\ orders' = [orders EXCEPT ![worker[w].oid] = worker[w].order]
  /\ worker' = [worker EXCEPT ![w] = Idle("processed")]
  /\ UNCHANGED <<stock, lock, queue, client, base, resLog, submitted, accepted, nUploads>>

\* tasks.py 61-66: order.has_been_processed = True; order.save(); return
Finish(w) ==
  /\ worker[w].pc = "final"
  /\ orders' = [orders EXCEPT ![worker[w].oid] =
                  [worker[w].order EXCEPT !.has_been_processed = TRUE]]
  /\ worker' = [worker EXCEPT ![w] = Idle("processed")]
  /\ UNCHANGED <<stock, lock, queue, client, base, resLog, submitted, accepted, nUploads>>

\* tasks.py 71-73: an exception raised by a database statement of the job (the
\* save of 30, the locked read of 42, the product save of 48, the save of 62) is
\* caught and the job returns; inside the atomic block the transaction is rolled
\* back and the row lock released
Fault(w) ==
  /\ worker[w].pc \in {"mark", "lock", "reserve", "final"}
  /\ lock' = [p \in Products |-> IF lock[p] = w THEN 0 ELSE lock[p]]
  /\ worker' = [worker EXCEPT ![w] = Idle("error")]
  /\ UNCHANGED <<orders, stock, queue, client, base, resLog, submitted, accepted, nUploads>>

\* ------------------------------------------------------------------ retry
\* what a retry writes: the object it loaded, with status and flag reset
ResetRow(row) == [row EXCEPT !.status = "pending", !.has_been_processed = FALSE]

\* views.py 108-118, admin.py 157: the condition under which a retry goes ahead
Retryable(row) == row.status = "failed" /\ row.has_been_processed

\* retries accepted or about to be written
RetriesBegun == TotalAccepted + SumSeq([c \in Clients |-> Cardinality(client[c].todo)])

\* views.py 106-118: order = self.get_object(), then the two checks; a refused
\* request answers 400 and ends
RetryRead(c, o) ==
  /\ c \in FirstIdle(client)
  /\ o \in DOMAIN orders
  /\ RetriesBegun < MaxRetries
  /\ client' = [client EXCEPT ![c] =
       IF Retryable(orders[o])
         THEN [pc |-> "write", todo |-> {o}, rows |-> [x \in OrderIds |-> IF x = o THEN orders[o] ELSE NoRow]]
         ELSE IdleClient]
  /\ UNCHANGED <<orders, stock, lock, queue, worker, base, resLog, submitted, accepted, nUploads>>

\* views.py 120-133: the reset, order.save(), process_order.delay, 200
RetryWrite(c) ==
  /\ client[c].pc = "write"
  /\ LET o == Max(client[c].todo) IN
     /\ orders' = [orders EXCEPT ![o] = ResetRow(client[c].rows[o])]
     /\ queue' = Submit(queue, o)
     /\ submitted' = Delivered(queue')
     /\ accepted' = [accepted EXCEPT ![o] = @ + 1]
  /\ client' = [client EXCEPT ![c] = IdleClient]
  /\ UNCHANGED <<stock, lock, worker, base, resLog, nUploads>>

\* admin.py 157: queryset.filter(status='failed', has_been_processed=True),
\* evaluated once when the loop starts
AdminRetrySelect(c, sel) ==
  /\ c \in FirstIdle(client)
  /\ sel \subseteq DOMAIN orders
  /\ sel # {}
  /\ LET todo == {o \in sel : Retryable(orders[o])} IN
     /\ RetriesBegun + Cardinality(todo) <= MaxRetries
     /\ client' = [client EXCEPT ![c] =
          IF todo = {} THEN IdleClient
          ELSE [pc |-> "loop", todo |-> todo,
                rows |-> [x \in OrderIds |-> IF x \in todo THEN orders[x] ELSE NoRow]]]
  /\ UNCHANGED <<orders, stock, lock, queue, worker, base, resLog, submitted, accepted, nUploads>>

\* admin.py 159-165: one turn of the loop, in the queryset's order (newest first)
AdminRetryStep(c) ==
  /\ client[c].pc = "loop"
  /\ LET o == Max(client[c].todo)
         rest == client[c].todo \ {o} IN
     /\ orders' = [orders EXCEPT ![o] = ResetRow(client[c].rows[o])]
     /\ queue' = Submit(queue, o)
     /\ submitted' = Delivered(queue')
     /\ accepted' = [accepted EXCEPT ![o] = @ + 1]
     /\ client' = [client EXCEPT ![c] =
          IF rest = {} THEN IdleClient
          ELSE [@ EXCEPT !.todo = rest, !.rows[o] = NoRow]]
  /\ UNCHANGED <<stock, lock, worker, base, resLog, nUploads>>

\* admin.py 151: queryset.filter(status='pending').update(status='approved'),
\* one UPDATE statement
ApproveOrders(sel) ==
  /\ sel \subseteq DOMAIN orders
  /\ sel # {}
  /\ orders' = [o \in DOMAIN orders |->
       IF o \in sel /\ orders[o].status = "pending"
         THEN [orders[o] EXCEPT !.status = "approved"]
         ELSE orders[o]]
  /\ UNCHANGED <<stock, lock, queue, worker, client, base, resLog, submitted, accepted, nUploads>>

\* ------------------------------------------------------ a job for no order
\* process_order.delay(order_id) with an id the Order table does not hold: the
\* task is public to whoever reaches the broker, and a message outlives the
\* row it names
CallMissing(o) ==
  /\ o \notin DOMAIN orders
  /\ queue[o] = 0
  /\ queue' = Submit(queue, o)
  /\ UNCHANGED <<orders, stock, lock, worker, client, base, resLog, submitted, accepted, nUploads>>

\* ----------------------------------------------------------- redelivery
\* At-least-once delivery: the broker hands a process_order message of order o
\* to the workers a second time (a worker lost before the acknowledgement, a
\* visibility timeout).  No delay call is made.
Redeliver(o) ==
  /\ redelivered < MaxRedeliveries
  /\ submitted[o] > 0
  /\ queue' = Submit(queue, o)
  /\ redelivered' = redelivered + 1
  /\ UNCHANGED <<orders, stock, lock, worker, client, base, resLog, submitted, accepted,
                 nUploads, carried>>

\* ------------------------------------------------------------ product upload
\* the sign check left out
ValidStockAny(s) == TRUE

\* tasks.py 175-177: a parsed stock quantity below zero is a row error
ValidStock(s) == s >= 0

\* tasks.py 173-200: one row of process_product_upload; update_or_create runs
\* in its own transaction and takes the row lock
UploadRow(p, s) ==
  /\ nUploads < MaxUploads
  /\ LockFree(p)
  /\ nUploads' = nUploads + 1
  /\ IF ValidStock(s)
       THEN /\ stock' = [stock EXCEPT ![p] = s]
            /\ base' = [base EXCEPT ![p] = s]
            /\ resLog' = [resLog EXCEPT ![p] = <<>>]
       ELSE UNCHANGED <<stock, base, resLog>>
  /\ UNCHANGED <<orders, lock, queue, worker, client, submitted, accepted>>

\* ============================================================ API access
\* permissions.py 8-9: IsCompanyMember.has_permission
IsCompanyMember(profile) == profile.exists /\ ~profile.is_blocked

\* permissions.py 34-37: IsOperator.has_permission
IsOperator(profile) ==
  profile.exists /\ profile.role \in {"operator", "admin"} /\ ~profile.is_blocked

\* api/urls.py 7-10: the routes of the three viewsets
ProductEndpoints == {"products.list", "products.retrieve"}
OrderEndpoints == {"orders.list", "orders.create", "orders.bulk", "orders.retry"}
ExportEndpoints == {"exports.list", "exports.download"}
Endpoints == ProductEndpoints \cup OrderEndpoints \cup ExportEndpoints

\* views.py 21, 39, 67, 142: permission_classes of the viewsets and of
\* bulk_create; every user here is authenticated, and HasFeatureEnabled finds
\* no feature_name at this point and answers True for a user with a profile
HasPermission(profile, endpoint) ==
  IF endpoint \in OrderEndpoints
    THEN IsCompanyMember(profile) /\ IsOperator(profile)
    ELSE IsCompanyMember(profile)

Answer(u, endpoint, arg, code, body) ==
  [user |-> u, endpoint |-> endpoint, arg |-> arg, code |-> code, body |-> body]

Answered(code, body) == Answer(api.user, api.endpoint, api.arg, code, body)

\* rest_framework APIView.initial: check_permissions, then check_throttles, then
\* the handler.  The profile is loaded once, by the first permission class, and
\* stays on request.user for the rest of the request.  A refused request is
\* answered 403, a throttled one 429.
ApiBegin(u, endpoint, arg, throttled) ==
  /\ api.pc = "idle"
  /\ nApi < MaxApi
  /\ nApi' = nApi + 1
  /\ IF ~HasPermission(profiles[u], endpoint)
       THEN /\ response' = Answer(u, endpoint, arg, 403, {})
            /\ api' = api
       ELSE IF throttled
         THEN /\ response' = Answer(u, endpoint, arg, 429, {})
              /\ api' = api
         ELSE /\ api' = [pc |-> "admitted", user |-> u, endpoint |-> endpoint, arg |-> arg,
                         profile |-> profiles[u], slot |-> 0]
              /\ response' = response
  /\ UNCHANGED <<profiles, catalogue, creator, priorFailed>>
  /\ UNCHANGED pipelineVars

\* the company filter left out
ProductQuerysetAllCompanies(profile, cat) == {p \in Catalogue : cat[p].is_active}

\* views.py 24-31: ProductViewSet.get_queryset
ProductQueryset(profile, cat) ==
  IF profile.exists
    THEN {p \in Catalogue : cat[p].company = profile.company /\ cat[p].is_active}
    ELSE {}

\* the response of the product list: 200 and the queryset
ProductList(profile, cat) == [code |-> 200, body |-> ProductQueryset(profile, cat)]

\* the response of the product detail: get_object looks the sku up in the
\* queryset and raises 404 when it is not there
ProductDetail(profile, cat, p) ==
  IF p \in ProductQueryset(profile, cat)
    THEN [code |-> 200, body |-> {p}]
    ELSE [code |-> 404, body |-> {}]

\* views.py 16-31: the list and retrieve handlers of ProductViewSet
ApiProducts ==
  /\ api.pc = "admitted"
  /\ api.endpoint \in ProductEndpoints
  /\ LET r == IF api.endpoint = "products.list"
                THEN ProductList(api.profile, catalogue)
                ELSE ProductDetail(api.profile, catalogue, api.arg.product) IN
     response' = Answered(r.code, r.body)
  /\ api' = IdleApi
  /\ UNCHANGED <<profiles, catalogue, creator, priorFailed, nApi>>
  /\ UNCHANGED pipelineVars

\* views.py 42-58: OrderViewSet.get_queryset
OrderQueryset(profile, u) ==
  {o \in DOMAIN orders :
     CASE profile.role = "admin" -> catalogue[orders[o].product].company = profile.company
       [] profile.role = "operator" -> creator[o] = u
       [] OTHER -> FALSE}

\* views.py 34-58, 137-150: the list handlers of OrderViewSet and ExportViewSet
ApiList ==
  /\ api.pc = "admitted"
  /\ api.endpoint \in {"orders.list", "exports.list"}
  /\ response' = Answered(200, {})
  /\ api' = IdleApi
  /\ UNCHANGED <<profiles, catalogue, creator, priorFailed, nApi>>
  /\ UNCHANGED pipelineVars

\* views.py 152-158: download begins with get_object; the Export table of
\* these runs is empty, so the lookup raises 404
ApiDownload ==
  /\ api.pc = "admitted"
  /\ api.endpoint = "exports.download"
  /\ response' = Answered(IF exports = <<>> THEN 404 ELSE 400, {})
  /\ api' = IdleApi
  /\ UNCHANGED <<profiles, catalogue, creator, priorFailed, nApi>>
  /\ UNCHANGED pipelineVars

\* serializers.py 37-43: validate_product
OwnProduct(profile, p) == catalogue[p].company = profile.company

\* created_by of the rows a request added (serializers.py 34, 55)
CreatedBy(u) ==
  [o \in OrderIds |-> IF o \in (DOMAIN orders') \ (DOMAIN orders) THEN u ELSE creator[o]]

\* views.py 60-65 with serializers.py 30-43: POST /api/orders/
ApiCreate ==
  /\ api.pc = "admitted"
  /\ api.endpoint = "orders.create"
  /\ IF OwnProduct(api.profile, api.arg.product)
       THEN CreateOrder(api.arg.product, api.arg.quantity)
       ELSE UNCHANGED pipelineVars
  /\ creator' = CreatedBy(api.user)
  /\ response' = Answered(IF Len(orders') > Len(orders) THEN 201 ELSE 400, {})
  /\ api' = IdleApi
  /\ UNCHANGED <<profiles, catalogue, priorFailed, nApi>>

\* views.py 67-98: POST /api/orders/bulk/, with the feature toggle of the
\* company on or off
ApiBulk(items, enabled) ==
  /\ api.pc = "admitted"
  /\ api.endpoint = "orders.bulk"
  /\ IF enabled /\ \A i \in 1..Len(items) : OwnProduct(api.profile, items[i][1])
       THEN BulkCreate(items)
       ELSE UNCHANGED pipelineVars
  /\ creator' = CreatedBy(api.user)
  /\ response' = Answered(IF ~enabled THEN 403
                          ELSE IF Len(orders') > Len(orders) THEN 201 ELSE 400, {})
  /\ api' = IdleApi
  /\ UNCHANGED <<profiles, catalogue, priorFailed, nApi>>

\* views.py 100-118: POST /api/orders/<id>/retry/ up to the two checks; an
\* order outside the queryset of the user is answered 404
ApiRetryRead(c) ==
  /\ api.pc = "admitted"
  /\ api.endpoint = "orders.retry"
  /\ IF api.arg.order \in OrderQueryset(api.profile, api.user)
       THEN /\ RetryRead(c, api.arg.order)
            /\ IF client'[c].pc = "write"
                 THEN /\ api' = [api EXCEPT !.pc = "write", !.slot = c]
                      /\ response' = response
                 ELSE /\ api' = IdleApi
                      /\ response' = Answered(400, {})
       ELSE /\ api' = IdleApi
            /\ response' = Answered(404, {})
            /\ UNCHANGED pipelineVars
  /\ UNCHANGED <<carried, profiles, catalogue, creator, priorFailed, nApi>>

\* views.py 120-133: the reset, the save, the job and the 200 of the retry
ApiRetryWrite ==
  /\ api.pc = "write"
  /\ RetryWrite(api.slot)
  /\ response' = Answered(200, {})
  /\ api' = IdleApi
  /\ UNCHANGED <<carried, profiles, catalogue, creator, priorFailed, nApi>>

\* the failed orders of a profile: those of the table and the older ones
FailedCount(u) ==
  priorFailed[u] + Cardinality({o \in DOMAIN orders : creator[o] = u /\ orders[o].status = "failed"})

\* admin.py 74-81: the admin action on the selected profiles
DeactivateProfilesWithFailedOrders(sel) ==
  /\ sel # {}
  /\ \A u \in sel : profiles[u].exists
  /\ profiles' = [u \in Accounts |->
       IF u \in sel /\ FailedCount(u) >= BlockThreshold
         THEN [profiles[u] EXCEPT !.is_blocked = TRUE]
         ELSE profiles[u]]
  /\ UNCHANGED <<catalogue, creator, priorFailed, api, response, nApi>>
  /\ UNCHANGED pipelineVars

\* tasks.py 181-189: update_or_create by sku; the row becomes an active
\* product of the uploading company, whoever held it before
UploadProduct(c, p, s) ==
  /\ IF p \in Products
       THEN UploadRow(p, s)
       ELSE /\ nUploads < MaxUploads
            /\ nUploads' = nUploads + 1
            /\ UNCHANGED <<orders, stock, lock, queue, worker, client, base, resLog,
                           submitted, accepted>>
  /\ catalogue' = IF ValidStock(s) THEN [catalogue EXCEPT ![p] = ProductRow(c, TRUE)] ELSE catalogue
  /\ UNCHANGED <<carried, profiles, creator, priorFailed, api, response, nApi>>

\* ================================================================ throttle
\* throttling.py 17-19, 82-100: the limiter classes; per_minute is the numerator
\* of refill_rate = per_minute / 60 tokens a second
TokenBucketThrottle == [capacity |-> 100, per_minute |-> 10, cache_prefix |-> "throttle_bucket"]
OrdersThrottle == [capacity |-> 50, per_minute |-> 50, cache_prefix |-> "throttle_orders"]
ProductsThrottle == [capacity |-> 100, per_minute |-> 100, cache_prefix |-> "throttle_products"]
ExportsThrottle == [capacity |-> 10, per_minute |-> 10, cache_prefix |-> "throttle_exports"]
Limiters == {TokenBucketThrottle, OrdersThrottle, ProductsThrottle, ExportsThrottle}

\* throttling.py 49, 64, 71: timeout=3600, in seconds
CacheTimeout == 3600
SecondsPerMinute == 60

\* Token counts are floats in the code; here they are exact, counted in units
\* of 1 / TicksPerMinute token, so that a tick refills per_minute units.
\* Clock readings enter allow_request only as current_time - last_update
\* (throttling.py 53) and through the expiry of the cache entry, which every
\* branch sets together with last_update (49, 64, 71): the model keeps, for each
\* entry, `age` = time.time() - last_update, which the clock actions move.
\* the clock ticks TicksPerMinute times a minute: the least resolution at which
\* 1 / refill_rate is a whole number of ticks for every limiter above
TicksPerMinute == ProductsThrottle.per_minute
OneToken == TicksPerMinute
CapacityUnits(l) == l.capacity * OneToken
\* time_elapsed * self.refill_rate
TokensToAdd(l, time_elapsed) == time_elapsed * l.per_minute
\* a cache timeout of 6 seconds
TimeoutTicksShort == TicksPerMinute \div 10
\* timeout=3600, in ticks
TimeoutTicks == (CacheTimeout * TicksPerMinute) \div SecondsPerMinute

Min(a, b) == IF a <= b THEN a ELSE b

NoBucket == [tokens |-> -1, age |-> -1]
Users == {"user_1"}

\* every limiter keeps its buckets under one prefix
CacheKeyNoPrefix(l, u) == <<"throttle", u>>

\* throttling.py 27-28, 38: f"{self.cache_prefix}:user_{id}"
CacheKey(l, u) == <<l.cache_prefix, u>>

\* cache.get(cache_key): None when the key was never set or its entry expired
Lookup(c, key) ==
  IF key \in DOMAIN c /\ c[key].age < TimeoutTicks THEN c[key] ELSE NoBucket

CacheGet(key) == Lookup(cache, key)

\* cache.set(cache_key, bucket_data, timeout=3600) with last_update = current_time
\* the entry keeps the timeout it was created with
StoreKeepTimeout(c, key, tokens) ==
  [k \in DOMAIN c \cup {key} |->
     IF k = key
       THEN [tokens |-> tokens, age |-> IF key \in DOMAIN c THEN c[key].age ELSE 0]
       ELSE c[k]]

\* cache.set(key, bucket_data, timeout=3600) on the cache c
Store(c, key, tokens) ==
  [k \in DOMAIN c \cup {key} |->
     IF k = key THEN [tokens |-> tokens, age |-> 0] ELSE c[k]]

CacheSet(key, tokens) == Store(cache, key, tokens)

\* throttling.py 53-57: the refilled token count
NewTokens(l, b) == Min(b.tokens + TokensToAdd(l, b.age), CapacityUnits(l))

\* a new bucket starts full, the current request not deducted
FirstTokensFull(l) == CapacityUnits(l)

\* throttling.py 45-48: a new bucket, the current request deducted
FirstTokens(l) == CapacityUnits(l) - OneToken

\* a denied request advances last_update and stores the count it read, the
\* tokens accrued since the last call dropped
DecisionDropsAccrued(l, b) ==
  IF b = NoBucket
    THEN [tokens |-> FirstTokens(l), allow |-> TRUE]
    ELSE LET new_tokens == NewTokens(l, b) IN
         IF new_tokens >= OneToken
           THEN [tokens |-> new_tokens - OneToken, allow |-> TRUE]
           ELSE [tokens |-> b.tokens, allow |-> FALSE]

\* throttling.py 37-72: the token count stored and the answer, for the bucket b
\* read (NoBucket when cache.get gave None)
Decision(l, b) ==
  IF b = NoBucket
    THEN [tokens |-> FirstTokens(l), allow |-> TRUE]
    ELSE LET new_tokens == NewTokens(l, b) IN
         IF new_tokens >= OneToken
           THEN [tokens |-> new_tokens - OneToken, allow |-> TRUE]
           ELSE [tokens |-> new_tokens, allow |-> FALSE]

NoCount == [calls |-> 0, admitted |-> 0]
Count(c, ok) == [calls |-> c.calls + 1, admitted |-> c.admitted + (IF ok THEN 1 ELSE 0)]

\* History of the scenario "burst on a fresh identity, one wait, more calls":
\*   burst  calls since the bucket was created, no time having passed
\*   wait   the burst went past the capacity, then only time has passed
\*   after  calls at the first instant after the wait (waited = its length)
\*   off    anything else (the counters are dropped)
\* throttling.py 21-72: allow_request of limiter l for user u, run alone
AllowRequest(l, u) ==
  /\ l = focus
  /\ phase = "burst" => burst.calls < l.capacity + MaxExtra
  /\ phase \in {"wait", "after"} => after.calls < MaxExtra
  /\ LET key == CacheKey(l, u)
         b == CacheGet(key)
         d == Decision(l, b) IN
     /\ cache' = CacheSet(key, d.tokens)
     /\ allowed' = d.allow
     /\ IF b = NoBucket
          THEN /\ phase' = "burst"
               /\ burst' = Count(NoCount, d.allow)
               /\ after' = NoCount
               /\ waited' = 0
          ELSE /\ phase' = CASE phase = "burst" -> "burst"
                             [] phase \in {"wait", "after"} -> "after"
                             [] OTHER -> "off"
               /\ burst' = IF phase = "burst" THEN Count(burst, d.allow) ELSE burst
               /\ after' = IF phase \in {"wait", "after"} THEN Count(after, d.allow) ELSE after
               /\ waited' = IF phase = "wait" THEN b.age ELSE waited
  /\ UNCHANGED <<focus, setBacks, concVars, indVars>>

\* every entry is d ticks older
Aged(c, d) == [k \in DOMAIN c |-> [c[k] EXCEPT !.age = @ + d]]

Older(d) == Aged(cache, d)

LeaveScenario ==
  /\ phase' = IF phase = "none" THEN "none" ELSE "off"
  /\ burst' = NoCount
  /\ after' = NoCount
  /\ waited' = 0

\* d ticks pass between two calls
ClockAdvance(d) ==
  /\ \A k \in DOMAIN cache : cache[k].age + d <= MaxAge
  /\ cache' = Older(d)
  /\ IF phase = "wait" \/ (phase = "burst" /\ burst.calls > focus.capacity)
       THEN phase' = "wait" /\ UNCHANGED <<burst, after, waited>>
       ELSE LeaveScenario
  /\ UNCHANGED <<focus, allowed, setBacks, concVars, indVars>>

\* time.time() is the system clock: it reads lower than before when the clock
\* has been set back by d ticks
ClockSetBack(d) ==
  /\ setBacks < MaxSetBacks
  /\ setBacks' = setBacks + 1
  /\ cache' = Older(-d)
  /\ LeaveScenario
  /\ UNCHANGED <<focus, allowed, concVars, indVars>>

Requests == 1..NumRequests
IdleRequest == [pc |-> "idle", l |-> OrdersThrottle, u |-> "user_1", bucket |-> NoBucket]

ConcIdle ==
  /\ req = [r \in Requests |-> IdleRequest]
  /\ admits = 0
  /\ lifetime = 0

IndIdle ==
  /\ superusers = {}
  /\ shadow = <<>>
  /\ agree = TRUE
  /\ nMoves = 0
  /\ caller = <<>>
  /\ sinceCall = 0

ThrottleIdle ==
  /\ cache = <<>>
  /\ focus = OrdersThrottle
  /\ allowed = "none"
  /\ phase = "none"
  /\ burst = NoCount
  /\ after = NoCount
  /\ waited = 0
  /\ setBacks = 0
  /\ ConcIdle
  /\ IndIdle

ThrottleInit ==
  /\ cache = <<>>
  /\ focus \in Limiters
  /\ allowed = "none"
  /\ phase = "none"
  /\ burst = NoCount
  /\ after = NoCount
  /\ waited = 0
  /\ setBacks = 0
  /\ ConcIdle
  /\ IndIdle

InitTB == OrderInit /\ AccessIdle /\ ThrottleInit

NextTB ==
  \/ \E l \in Limiters, u \in Users : AllowRequest(l, u) /\ UNCHANGED orderVars
  \/ \E d \in 1..MaxAge : ClockAdvance(d) /\ UNCHANGED orderVars
  \/ \E d \in 1..MaxBack : ClockSetBack(d) /\ UNCHANGED orderVars

\* the throttle alone: sequential requests of one identity through one limiter
SpecTB == InitTB /\ [][NextTB]_vars

\* ------------------------------------------------- concurrent allow_request
\* throttling.py 37-41: a request reads its bucket and the clock
BeginRequest(r, l, u) ==
  /\ r \in FirstIdle(req)
  /\ l = focus
  /\ admits < l.capacity + MaxExtra
  /\ req' = [req EXCEPT ![r] = [pc |-> "read", l |-> l, u |-> u,
                                bucket |-> CacheGet(CacheKey(l, u))]]
  /\ UNCHANGED <<cache, focus, allowed, phase, burst, after, waited, setBacks,
                 admits, lifetime, indVars>>

\* throttling.py 43-72: the request decides on the bucket it read, stores the
\* result with cache.set and answers
EndRequest(r) ==
  /\ req[r].pc = "read"
  /\ LET key == CacheKey(req[r].l, req[r].u)
         d == Decision(req[r].l, req[r].bucket) IN
     /\ cache' = CacheSet(key, d.tokens)
     /\ allowed' = d.allow
     /\ admits' = (IF key \in DOMAIN cache THEN admits ELSE 0)
                    + (IF d.allow THEN 1 ELSE 0)
     /\ lifetime' = IF key \in DOMAIN cache THEN lifetime ELSE 0
  /\ req' = [req EXCEPT ![r] = IdleRequest]
  /\ UNCHANGED <<focus, phase, burst, after, waited, setBacks, indVars>>

\* d ticks pass while no request is between its read and its write (the two
\* are a few statements apart, a tick is 0.6 s)
ClockAdvanceIdle(d) ==
  /\ \A r \in Requests : req[r].pc = "idle"
  /\ cache # <<>>
  /\ lifetime + d <= MaxAge
  /\ cache' = Older(d)
  /\ lifetime' = lifetime + d
  /\ UNCHANGED <<focus, allowed, phase, burst, after, waited, setBacks, req, admits, indVars>>

InitTC == OrderInit /\ AccessIdle /\ ThrottleInit /\ focus = ExportsThrottle

NextTC ==
  \/ \E r \in Requests, l \in Limiters, u \in Users : BeginRequest(r, l, u) /\ UNCHANGED orderVars
  \/ \E r \in Requests : EndRequest(r) /\ UNCHANGED orderVars
  \/ \E d \in 1..MaxAge : ClockAdvanceIdle(d) /\ UNCHANGED orderVars

\* the throttle with the requests of one identity overlapping
SpecTC == InitTC /\ [][NextTC]_vars

\* ------------------------------------------- several identities and limiters
AllUsers == {"user_1", "user_2"}
\* the staff account that can be made a superuser
Promotable == {"user_2"}

\* the calls of Observed are the ones left out of the run `shadow`; the other
\* calls of a run are those of another user on the same limiter, or of the same
\* user on another limiter (`focus`)
Observed == <<ExportsThrottle, "user_1">>
OtherCaller ==
  IF focus = ExportsThrottle THEN <<ExportsThrottle, "user_2">> ELSE <<focus, "user_1">>
Callers == {Observed, OtherCaller}

\* the superuser never gets as far as the bucket
BypassNever(su, u) == FALSE

\* throttling.py 34: request.user.is_superuser
Bypass(su, u) == u \in su

\* throttling.py 26-72: allow_request of limiter l for user u on the cache c
\* when the superusers are su: the cache after it and the answer
AllowOn(c, su, l, u) ==
  IF Bypass(su, u)
    THEN [cache |-> c, allow |-> TRUE]
    ELSE LET key == CacheKey(l, u)
             d == Decision(l, Lookup(c, key)) IN
         [cache |-> Store(c, key, d.tokens), allow |-> d.allow]

\* allow_request of limiter l for user u, several limiters being in use
AllowRequestAny(l, u) ==
  /\ LET key == CacheKey(l, u)
         r == AllowOn(cache, superusers, l, u)
         s == AllowOn(shadow, superusers, l, u) IN
     /\ cache' = r.cache
     /\ allowed' = r.allow
     /\ IF <<l, u>> = Observed
          THEN UNCHANGED <<shadow, agree>>
          ELSE /\ shadow' = s.cache
               /\ agree' = (agree /\ (s.allow = r.allow))
     /\ lifetime' = IF <<l, u>> = Observed /\ ~Bypass(superusers, u)
                          /\ Lookup(cache, key) = NoBucket
                       THEN 0 ELSE lifetime
  /\ caller' = <<l, u>>
  /\ sinceCall' = IF <<l, u>> = Observed /\ ~Bypass(superusers, u) THEN 0 ELSE sinceCall
  /\ UNCHANGED <<focus, phase, burst, after, waited, setBacks, req, admits,
                 superusers, nMoves>>

\* an administrator sets is_superuser on a user
Promote(u) ==
  /\ u \notin superusers
  /\ superusers' = superusers \cup {u}
  /\ caller' = <<>>
  /\ UNCHANGED <<cache, focus, allowed, phase, burst, after, waited, setBacks,
                 concVars, shadow, agree, nMoves, sinceCall>>

\* the time that refills one token of the exports limiter, and half the cache
\* timeout
ClockSteps ==
  {TicksPerMinute \div ExportsThrottle.per_minute, TimeoutTicks \div 2}

\* d ticks pass, for every entry of the cache
ClockAdvanceAll(d) ==
  /\ nMoves < MaxMoves
  /\ nMoves' = nMoves + 1
  /\ cache' = Aged(cache, d)
  /\ shadow' = Aged(shadow, d)
  /\ lifetime' = IF CacheKey(Observed[1], Observed[2]) \in DOMAIN cache
                    THEN lifetime + d ELSE lifetime
  /\ sinceCall' = IF CacheKey(Observed[1], Observed[2]) \in DOMAIN cache
                     THEN sinceCall + d ELSE sinceCall
  /\ UNCHANGED <<focus, allowed, phase, burst, after, waited, setBacks, req, admits,
                 superusers, agree, caller>>

\* views.py 22, 40, 142: the limiters the viewsets use
InitTI == OrderInit /\ AccessIdle /\ ThrottleInit /\ focus \in {ProductsThrottle, OrdersThrottle, ExportsThrottle}

NextTI ==
  \/ \E c \in Callers : AllowRequestAny(c[1], c[2]) /\ UNCHANGED orderVars
  \/ \E u \in Promotable : Promote(u) /\ UNCHANGED orderVars
  \/ \E d \in ClockSteps : ClockAdvanceAll(d) /\ UNCHANGED orderVars

\* the throttle with several identities and limiters, one request at a time
SpecTI == InitTI /\ [][NextTI]_vars

\* ------------------------------------------- intervals of one identity's calls
\* 1 / refill_rate, in ticks (throttling.py 79, wait)
TokenTicks(l) == TicksPerMinute \div l.per_minute

\* throttling.py 21-72: allow_request of limiter l for user u, run alone; the
\* call and its answer are counted in the interval
AllowRequestInWindow(l, u) ==
  /\ l = focus
  /\ window.calls - window.admitted < MaxExtra
  /\ LET key == CacheKey(l, u)
         d == Decision(l, CacheGet(key)) IN
     /\ cache' = CacheSet(key, d.tokens)
     /\ allowed' = d.allow
     /\ window' = [window EXCEPT !.calls = @ + 1,
                                 !.admitted = @ + (IF d.allow THEN 1 ELSE 0)]
  /\ UNCHANGED <<focus, phase, burst, after, waited, setBacks, concVars, indVars>>

\* the short waits between two calls: the time that refills a token, and half
\* of it
ShortWaits(l) == {TokenTicks(l) \div 2, TokenTicks(l)} \ {0}

\* the long waits: half the cache timeout, and the whole
LongWaits == {TimeoutTicks \div 2, TimeoutTicks}

\* d ticks pass between two calls, d a short wait
ClockAdvanceShort(d) ==
  /\ cache # <<>>
  /\ window.fine + d <= 2 * TokenTicks(focus)
  /\ cache' = Older(d)
  /\ window' = [window EXCEPT !.fine = @ + d, !.ticks = @ + d]
  /\ UNCHANGED <<focus, allowed, phase, burst, after, waited, setBacks, concVars, indVars>>

\* d ticks pass between two calls, d a long wait
ClockAdvanceLong(d) ==
  /\ cache # <<>>
  /\ nMoves < MaxLongWaits
  /\ nMoves' = nMoves + 1
  /\ cache' = Older(d)
  /\ window' = [window EXCEPT !.ticks = @ + d]
  /\ UNCHANGED <<focus, allowed, phase, burst, after, waited, setBacks, concVars,
                 superusers, shadow, agree, caller, sinceCall>>

\* an interval begins at the instant of a call, after it, when the call has
\* emptied the bucket or has made it
BeginWindow ==
  /\ window # NoWindow
  /\ LET b == CacheGet(CacheKey(focus, "user_1")) IN
     /\ b # NoBucket
     /\ b.age = 0
     /\ b.tokens \in {0, FirstTokens(focus)}
     /\ window' = [NoWindow EXCEPT !.zero = (b.tokens = 0)]
  /\ UNCHANGED <<cache, focus, allowed, phase, burst, after, waited, setBacks, concVars, indVars>>

InitTW == OrderInit /\ AccessIdle /\ ThrottleInit

NextTW ==
  \/ \E l \in Limiters, u \in Users : AllowRequestInWindow(l, u) /\ UNCHANGED <<pipelineVars, exportVars, redelivered, accessVars>>
  \/ \E d \in ShortWaits(focus) : ClockAdvanceShort(d) /\ UNCHANGED <<pipelineVars, exportVars, redelivered, accessVars>>
  \/ \E d \in LongWaits : ClockAdvanceLong(d) /\ UNCHANGED <<pipelineVars, exportVars, redelivered, accessVars>>
  \/ BeginWindow /\ UNCHANGED <<pipelineVars, exportVars, redelivered, accessVars>>

\* the throttle alone, the clock never set back, with waits longer than the
\* cache timeout and the calls of an interval counted
SpecTW == InitTW /\ [][NextTW]_vars

\* --------------------------------------------------------- generate_export
\* The order id lists a generate_export message carries.  The task takes any
\* list: ids twice, and ids of no order (one more id than orders are ever
\* created), are among them.
RECURSIVE ListsUpTo(_)
ListsUpTo(n) ==
  IF n = 0 THEN {<<>>}
  ELSE ListsUpTo(n - 1) \cup {Append(l, i) : l \in {m \in ListsUpTo(n - 1) : Len(m) = n - 1}, i \in 1..(MaxOrders + 1)}

IdLists == ListsUpTo(MaxIds)

\* the text of the exceptions a step of the job raises: str(e) is the empty
\* string for an exception raised without arguments
Messages == {"", "database is locked"}

\* admin action "Export selected orders": the Export row is created pending
\* and the job is handed to the broker, with the ids of the selection
ExportSelected(ids) ==
  /\ Len(exports) < MaxExports
  /\ exports' = Append(exports, PendingExport)
  /\ xqueue' = xqueue \cup {[eid |-> Len(exports) + 1, ids |-> ids]}
  /\ UNCHANGED <<storage, xworker, xresult, pipelineVars>>

\* Export.objects.get(id=export_id)
XTake(job) ==
  /\ xworker.pc = "idle"
  /\ job \in xqueue
  /\ job.eid \in DOMAIN exports
  /\ xqueue' = xqueue \ {job}
  /\ xworker' = [pc |-> "loaded", eid |-> job.eid, ids |-> job.ids, export |-> exports[job.eid]]
  /\ UNCHANGED <<exports, storage, xresult, pipelineVars>>

RECURSIVE NewestFirst(_)
NewestFirst(S) == IF S = {} THEN <<>> ELSE <<Max(S)>> \o NewestFirst(S \ {Max(S)})

\* one entry for each element of the list, kept when an order has that id
QueryPerId(table, ids) == SelectSeq(ids, LAMBDA i : i \in DOMAIN table)

\* Order.objects.filter(id__in=order_ids): the rows of the table whose id is
\* in the list, each once, in the model's ordering (-created_at)
QueryOrders(table, ids) ==
  NewestFirst({o \in DOMAIN table : \E i \in DOMAIN ids : ids[i] = o})

HeaderRow ==
  <<"Reference Code", "Product", "SKU", "Quantity", "Status", "Created By", "Company", "Created At">>

\* The cells of an order's line.  The reference code is the order's identity
\* and the creation time its rank; product name and SKU are the product's
\* identity; creator and company are those of the single tenant.
DataRow(table, o) ==
  <<o, table[o].product, table[o].product, table[o].quantity, table[o].status, "user_1", "company", o>>

\* csv_content: the header, then a line for each order of the query.  A line
\* is kept as the tuple of its cells (the text is the cells in double quotes,
\* joined by commas; lines joined by newlines)
CsvContent(table, ids) ==
  <<HeaderRow>> \o [i \in 1..Len(QueryOrders(table, ids)) |-> DataRow(table, QueryOrders(table, ids)[i])]

\* the query is evaluated and the lines are built and written to storage;
\* export.file is set on the in-memory object only (save=False)
XStore ==
  /\ xworker.pc = "loaded"
  /\ storage' = [storage EXCEPT ![xworker.eid] = CsvContent(orders, xworker.ids)]
  /\ xworker' = [xworker EXCEPT !.pc = "stored", !.export.file = xworker.eid]
  /\ UNCHANGED <<exports, xqueue, xresult, pipelineVars>>

\* the row export.save() writes: the in-memory row, not its status alone
SavedStatusOnly(row, mem) == [row EXCEPT !.status = mem.status]
SavedRow(row, mem) == mem

\* export.status = 'ready'; export.save()
XSave ==
  /\ xworker.pc = "stored"
  /\ exports' = [exports EXCEPT ![xworker.eid] = SavedRow(@, [xworker.export EXCEPT !.status = "ready"])]
  /\ xworker' = [xworker EXCEPT !.pc = "saved", !.export.status = "ready"]
  /\ UNCHANGED <<storage, xqueue, xresult, pipelineVars>>

\* the notification is printed and the job returns
XNotify ==
  /\ xworker.pc = "saved"
  /\ xworker' = IdleExportWorker
  /\ xresult' = [xresult EXCEPT ![xworker.eid] = "generated"]
  /\ UNCHANGED <<exports, storage, xqueue, pipelineVars>>

\* A statement of the job raises (the query, the storage write, the save, the
\* notification).  The handler loads the row again, sets it failed with the
\* exception's text and saves it; when that raises too (recorded = FALSE) the
\* second exception is swallowed.  Either way the job returns "Error: ...".
XFault(msg, recorded) ==
  /\ xworker.pc \in {"loaded", "stored", "saved"}
  /\ exports' = IF recorded
                THEN [exports EXCEPT ![xworker.eid] = [@ EXCEPT !.status = "failed", !.note = msg]]
                ELSE exports
  /\ xworker' = IdleExportWorker
  /\ xresult' = [xresult EXCEPT ![xworker.eid] = "error"]
  /\ UNCHANGED <<storage, xqueue, pipelineVars>>

\* ids of export rows that never exist
MissingExportIds == {MaxExports + 1}

\* generate_export.delay(eid, ids) for an id that has no export row
CallMissingExport(eid, ids) ==
  /\ eid \in MissingExportIds
  /\ eid \notin DOMAIN xresult
  /\ \A job \in xqueue : job.eid # eid
  /\ xqueue' = xqueue \cup {[eid |-> eid, ids |-> ids]}
  /\ UNCHANGED <<exports, storage, xworker, xresult, pipelineVars>>

\* the missing row is handled as any other fault: a failed row is written for
\* the id and the job returns "Error: ..."
XTakeMissingAsFault(job) ==
  /\ xworker.pc = "idle"
  /\ job \in xqueue
  /\ job.eid \notin DOMAIN exports
  /\ xqueue' = xqueue \ {job}
  /\ xresult' = (job.eid :> "error") @@ xresult
  /\ exports' = Append(exports, [PendingExport EXCEPT !.status = "failed"])
  /\ UNCHANGED <<storage, xworker, pipelineVars>>

\* Export.objects.get(id=export_id) raises Export.DoesNotExist: the job logs
\* and returns "Export ... not found"
XTakeMissing(job) ==
  /\ xworker.pc = "idle"
  /\ job \in xqueue
  /\ job.eid \notin DOMAIN exports
  /\ xqueue' = xqueue \ {job}
  /\ xresult' = (job.eid :> "not_found") @@ xresult
  /\ UNCHANGED <<exports, storage, xworker, pipelineVars>>

\* ------------------------------------------------------------ specification
BulkItems ==
  {<<i>> : i \in Ordered \X Quantities}
    \cup {<<i, j>> : i \in Ordered \X Quantities, j \in Ordered \X Quantities}

Next ==
  \/ \E p \in Ordered, q \in Quantities : CreateOrder(p, q) /\ UNCHANGED <<throttleVars, exportVars, envVars>>
  \/ \E items \in BulkItems : BulkCreate(items) /\ UNCHANGED <<throttleVars, exportVars, envVars>>
  \/ \E w \in Workers, o \in OrderIds : TakeJob(w, o) /\ UNCHANGED <<throttleVars, carried, exportVars, envVars>>
  \/ \E w \in Workers, approve \in BOOLEAN : MarkProcessing(w, approve) /\ UNCHANGED <<throttleVars, carried, exportVars, envVars>>
  \/ \E w \in Workers : LockProduct(w) /\ UNCHANGED <<throttleVars, carried, exportVars, envVars>>
  \/ \E w \in Workers : Reserve(w) /\ UNCHANGED <<throttleVars, carried, exportVars, envVars>>
  \/ \E w \in Workers : Finish(w) /\ UNCHANGED <<throttleVars, carried, exportVars, envVars>>
  \/ \E c \in Clients, o \in OrderIds : RetryRead(c, o) /\ UNCHANGED <<throttleVars, carried, exportVars, envVars>>
  \/ \E c \in Clients : RetryWrite(c) /\ UNCHANGED <<throttleVars, carried, exportVars, envVars>>
  \/ \E c \in Clients, sel \in SUBSET OrderIds : AdminRetrySelect(c, sel) /\ UNCHANGED <<throttleVars, carried, exportVars, envVars>>
  \/ \E c \in Clients : AdminRetryStep(c) /\ UNCHANGED <<throttleVars, carried, exportVars, envVars>>
  \/ \E sel \in SUBSET OrderIds : ApproveOrders(sel) /\ UNCHANGED <<throttleVars, carried, exportVars, envVars>>
  \/ \E p \in Ordered, s \in StockValues : UploadRow(p, s) /\ UNCHANGED <<throttleVars, carried, exportVars, envVars>>

Init == OrderInit /\ AccessIdle /\ ThrottleIdle

Spec == Init /\ [][Next]_vars

\* order creation alone, the requests carrying any values for the read-only
\* fields
NextCR ==
  \/ \E p \in Ordered, q \in Quantities, extra \in ClientExtras :
       CreateOrderWith(p, q, extra) /\ UNCHANGED <<throttleVars, exportVars, envVars>>
  \/ \E items \in BulkItems, extra \in ClientExtras :
       BulkCreateWith(items, extra) /\ UNCHANGED <<throttleVars, exportVars, envVars>>

SpecCR == Init /\ [][NextCR]_vars

\* the export job, with faults, next to order creation and manual approval
NextX ==
  \/ \E p \in Ordered, q \in Quantities : CreateOrder(p, q) /\ UNCHANGED <<throttleVars, exportVars, envVars>>
  \/ \E sel \in SUBSET OrderIds : ApproveOrders(sel) /\ UNCHANGED <<throttleVars, carried, exportVars, envVars>>
  \/ \E ids \in IdLists : ExportSelected(ids) /\ UNCHANGED <<throttleVars, envVars>>
  \/ \E job \in xqueue : XTake(job) /\ UNCHANGED <<throttleVars, envVars>>
  \/ XStore /\ UNCHANGED <<throttleVars, envVars>>
  \/ XSave /\ UNCHANGED <<throttleVars, envVars>>
  \/ XNotify /\ UNCHANGED <<throttleVars, envVars>>
  \/ \E msg \in Messages, recorded \in BOOLEAN : XFault(msg, recorded) /\ UNCHANGED <<throttleVars, envVars>>

SpecX == Init /\ [][NextX]_vars

\* the export job next to jobs submitted for ids that have no export row
NextXM ==
  \/ \E p \in Ordered, q \in Quantities : CreateOrder(p, q) /\ UNCHANGED <<throttleVars, exportVars, envVars>>
  \/ \E ids \in IdLists : ExportSelected(ids) /\ UNCHANGED <<throttleVars, envVars>>
  \/ \E eid \in MissingExportIds, ids \in IdLists : CallMissingExport(eid, ids) /\ UNCHANGED <<throttleVars, envVars>>
  \/ \E job \in xqueue : XTake(job) /\ UNCHANGED <<throttleVars, envVars>>
  \/ \E job \in xqueue : XTakeMissing(job) /\ UNCHANGED <<throttleVars, envVars>>
  \/ XStore /\ UNCHANGED <<throttleVars, envVars>>
  \/ XSave /\ UNCHANGED <<throttleVars, envVars>>
  \/ XNotify /\ UNCHANGED <<throttleVars, envVars>>
  \/ \E msg \in Messages, recorded \in BOOLEAN : XFault(msg, recorded) /\ UNCHANGED <<throttleVars, envVars>>

SpecXM == Init /\ [][NextXM]_vars

\* The requests that submit jobs (order creation, retry, export) next to the
\* workers that run them.  The export action is run on the whole change list:
\* it hands over the ids of all orders, newest first.
NextD ==
  \/ \E p \in Ordered, q \in Quantities : CreateOrder(p, q) /\ UNCHANGED <<throttleVars, exportVars, envVars>>
  \/ \E items \in BulkItems : BulkCreate(items) /\ UNCHANGED <<throttleVars, exportVars, envVars>>
  \/ \E w \in Workers, o \in OrderIds : TakeJob(w, o) /\ UNCHANGED <<throttleVars, carried, exportVars, envVars>>
  \/ \E w \in Workers, approve \in BOOLEAN : MarkProcessing(w, approve) /\ UNCHANGED <<throttleVars, carried, exportVars, envVars>>
  \/ \E w \in Workers : LockProduct(w) /\ UNCHANGED <<throttleVars, carried, exportVars, envVars>>
  \/ \E w \in Workers : Reserve(w) /\ UNCHANGED <<throttleVars, carried, exportVars, envVars>>
  \/ \E w \in Workers : Finish(w) /\ UNCHANGED <<throttleVars, carried, exportVars, envVars>>
  \/ \E c \in Clients, o \in OrderIds : RetryRead(c, o) /\ UNCHANGED <<throttleVars, carried, exportVars, envVars>>
  \/ \E c \in Clients : RetryWrite(c) /\ UNCHANGED <<throttleVars, carried, exportVars, envVars>>
  \/ \E c \in Clients, sel \in SUBSET OrderIds : AdminRetrySelect(c, sel) /\ UNCHANGED <<throttleVars, carried, exportVars, envVars>>
  \/ \E c \in Clients : AdminRetryStep(c) /\ UNCHANGED <<throttleVars, carried, exportVars, envVars>>
  \/ ExportSelected(NewestFirst(DOMAIN orders)) /\ UNCHANGED <<throttleVars, envVars>>
  \/ \E job \in xqueue : XTake(job) /\ UNCHANGED <<throttleVars, envVars>>
  \/ XStore /\ UNCHANGED <<throttleVars, envVars>>
  \/ XSave /\ UNCHANGED <<throttleVars, envVars>>
  \/ XNotify /\ UNCHANGED <<throttleVars, envVars>>

SpecD == Init /\ [][NextD]_vars

\* creation, jobs and retries under at-least-once delivery
NextR ==
  \/ \E p \in Ordered, q \in Quantities : CreateOrder(p, q) /\ UNCHANGED <<throttleVars, exportVars, envVars>>
  \/ \E w \in Workers, o \in OrderIds : TakeJob(w, o) /\ UNCHANGED <<throttleVars, carried, exportVars, envVars>>
  \/ \E w \in Workers, approve \in BOOLEAN : MarkProcessing(w, approve) /\ UNCHANGED <<throttleVars, carried, exportVars, envVars>>
  \/ \E w \in Workers : LockProduct(w) /\ UNCHANGED <<throttleVars, carried, exportVars, envVars>>
  \/ \E w \in Workers : Reserve(w) /\ UNCHANGED <<throttleVars, carried, exportVars, envVars>>
  \/ \E w \in Workers : Finish(w) /\ UNCHANGED <<throttleVars, carried, exportVars, envVars>>
  \/ \E c \in Clients, o \in OrderIds : RetryRead(c, o) /\ UNCHANGED <<throttleVars, carried, exportVars, envVars>>
  \/ \E c \in Clients : RetryWrite(c) /\ UNCHANGED <<throttleVars, carried, exportVars, envVars>>
  \/ \E o \in OrderIds : Redeliver(o) /\ UNCHANGED <<throttleVars, exportVars, accessVars, window>>

SpecR == Init /\ [][NextR]_vars

\* The operations that write orders, the generated codes drawn from a few
\* values so that two draws can coincide, and the requests carrying a reference
\* code of the client or none
CodeExtras == {NoExtra} \cup {[NoExtra EXCEPT !.reference_code = c, !.given = {"reference_code"}] : c \in ClientCodes}

NextRC ==
  \/ \E p \in Ordered, q \in Quantities, extra \in CodeExtras, n \in RefCodes :
       CreateOrderCode(p, q, extra, n) /\ UNCHANGED <<throttleVars, exportVars, envVars>>
  \/ \E items \in BulkItems, extra \in CodeExtras, kept \in BOOLEAN :
       \E codes \in [1..Len(items) -> RefCodes] :
         BulkCreateCodes(items, extra, codes, kept) /\ UNCHANGED <<throttleVars, exportVars, envVars>>
  \/ \E w \in Workers, o \in OrderIds : TakeJob(w, o) /\ UNCHANGED <<throttleVars, carried, exportVars, envVars>>
  \/ \E w \in Workers, approve \in BOOLEAN : MarkProcessing(w, approve) /\ UNCHANGED <<throttleVars, carried, exportVars, envVars>>
  \/ \E w \in Workers : LockProduct(w) /\ UNCHANGED <<throttleVars, carried, exportVars, envVars>>
  \/ \E w \in Workers : Reserve(w) /\ UNCHANGED <<throttleVars, carried, exportVars, envVars>>
  \/ \E w \in Workers : Finish(w) /\ UNCHANGED <<throttleVars, carried, exportVars, envVars>>
  \/ \E c \in Clients, o \in OrderIds : RetryRead(c, o) /\ UNCHANGED <<throttleVars, carried, exportVars, envVars>>
  \/ \E c \in Clients : RetryWrite(c) /\ UNCHANGED <<throttleVars, carried, exportVars, envVars>>
  \/ \E sel \in SUBSET OrderIds : ApproveOrders(sel) /\ UNCHANGED <<throttleVars, carried, exportVars, envVars>>

SpecRC == Init /\ [][NextRC]_vars

\* The API with its users: requests of every endpoint by every user, the jobs,
\* run by one worker, the admin action that blocks profiles and the product
\* upload.  The profile of u1 has any role and two or three older failed
\* orders; the second product is inactive, the third of the other company.
ArgsOf(endpoint) ==
  CASE endpoint = "products.retrieve" -> {[NoArg EXCEPT !.product = p] : p \in Catalogue}
    [] endpoint = "orders.create" -> {[NoArg EXCEPT !.product = p, !.quantity = q] : p \in Ordered, q \in {4}}
    [] endpoint = "orders.retry" -> {[NoArg EXCEPT !.order = o] : o \in OrderIds}
    [] OTHER -> {NoArg}

InitAC ==
  /\ OrderInit
  /\ ThrottleIdle
  /\ \E r \in Roles : profiles = [u \in Accounts |-> CASE u = "u1" -> ProfileRow("c1", r)
                                                   [] u = "u2" -> ProfileRow("c2", "operator")
                                                   [] OTHER -> NoProfile]
  /\ catalogue = [p \in Catalogue |-> CASE p = "p2" -> ProductRow("c1", FALSE)
                                          [] p = "p3" -> ProductRow("c2", TRUE)
                                          [] OTHER -> ProductRow("c1", TRUE)]
  /\ creator = [o \in OrderIds |-> ""]
  /\ \E n \in {BlockThreshold - 1, BlockThreshold} :
       priorFailed = [u \in Accounts |-> IF u = "u1" THEN n ELSE 0]
  /\ api = IdleApi
  /\ response = NoResponse
  /\ nApi = 0
  /\ window = NoWindow

NextAC ==
  \/ \E u \in Accounts, endpoint \in Endpoints, throttled \in BOOLEAN :
       \E arg \in ArgsOf(endpoint) :
         ApiBegin(u, endpoint, arg, throttled) /\ UNCHANGED <<throttleVars, exportVars, redelivered, window>>
  \/ ApiProducts /\ UNCHANGED <<throttleVars, exportVars, redelivered, window>>
  \/ ApiList /\ UNCHANGED <<throttleVars, exportVars, redelivered, window>>
  \/ ApiDownload /\ UNCHANGED <<throttleVars, exportVars, redelivered, window>>
  \/ ApiCreate /\ UNCHANGED <<throttleVars, exportVars, redelivered, window>>
  \/ \E items \in {<<<<"p1", 4>>>>, <<<<"p1", 4>>, <<"p1", 4>>>>}, enabled \in BOOLEAN :
       ApiBulk(items, enabled) /\ UNCHANGED <<throttleVars, exportVars, redelivered, window>>
  \/ \E c \in Clients : ApiRetryRead(c) /\ UNCHANGED <<throttleVars, exportVars, redelivered, window>>
  \/ ApiRetryWrite /\ UNCHANGED <<throttleVars, exportVars, redelivered, window>>
  \/ \E sel \in SUBSET Accounts :
       DeactivateProfilesWithFailedOrders(sel) /\ UNCHANGED <<throttleVars, exportVars, redelivered, window>>
  \/ \E c \in Companies, p \in Catalogue, s \in {MaxStock} :
       UploadProduct(c, p, s) /\ UNCHANGED <<throttleVars, exportVars, redelivered, window>>
  \/ \E w \in {1}, o \in OrderIds : TakeJob(w, o) /\ UNCHANGED <<throttleVars, carried, exportVars, envVars>>
  \/ \E w \in {1}, approve \in BOOLEAN : MarkProcessing(w, approve) /\ UNCHANGED <<throttleVars, carried, exportVars, envVars>>
  \/ \E w \in {1} : LockProduct(w) /\ UNCHANGED <<throttleVars, carried, exportVars, envVars>>
  \/ \E w \in {1} : Reserve(w) /\ UNCHANGED <<throttleVars, carried, exportVars, envVars>>
  \/ \E w \in {1} : Finish(w) /\ UNCHANGED <<throttleVars, carried, exportVars, envVars>>

SpecAC == InitAC /\ [][NextAC]_vars

\* The pipeline over two products: orders for either product, the jobs of two
\* workers and the API retry
Others == <<throttleVars, carried, exportVars, envVars>>

JobTake(o) == \E w \in Workers : TakeJob(w, o) /\ UNCHANGED Others
JobMark(w) == \E approve \in BOOLEAN : MarkProcessing(w, approve) /\ UNCHANGED Others
JobLock(w) == LockProduct(w) /\ UNCHANGED Others
JobReserve(w) == Reserve(w) /\ UNCHANGED Others
JobFinish(w) == Finish(w) /\ UNCHANGED Others

NextP ==
  \/ \E p \in Products, q \in {4, MaxQty} : CreateOrder(p, q) /\ UNCHANGED <<throttleVars, exportVars, envVars>>
  \/ \E o \in OrderIds : JobTake(o)
  \/ \E w \in Workers : JobMark(w)
  \/ \E w \in Workers : JobLock(w)
  \/ \E w \in Workers : JobReserve(w)
  \/ \E w \in Workers : JobFinish(w)
  \/ \E c \in Clients, o \in OrderIds : RetryRead(c, o) /\ UNCHANGED Others
  \/ \E c \in Clients : RetryWrite(c) /\ UNCHANGED Others

SpecP == Init /\ [][NextP]_vars

\* Celery runs every delivered message and every started job to its end: a
\* message in the broker is taken once a worker is free, and a worker's next
\* statement is executed.  A job waiting for the row lock is served when the
\* lock is released again and again (the database queues the waiters).
JobsRun ==
  /\ \A o \in OrderIds : WF_vars(JobTake(o))
  /\ \A w \in Workers :
       /\ WF_vars(JobMark(w))
       /\ SF_vars(JobLock(w))
       /\ WF_vars(JobReserve(w))
       /\ WF_vars(JobFinish(w))

SpecL == SpecP /\ JobsRun

\* The pipeline with jobs called for ids that have no order
NextNF ==
  \/ \E p \in Ordered, q \in Quantities : CreateOrder(p, q) /\ UNCHANGED <<throttleVars, exportVars, envVars>>
  \/ \E o \in OrderIds : CallMissing(o) /\ UNCHANGED Others
  \/ \E o \in OrderIds : JobTake(o)
  \/ \E w \in Workers : JobMark(w)
  \/ \E w \in Workers : JobLock(w)
  \/ \E w \in Workers : JobReserve(w)
  \/ \E w \in Workers : JobFinish(w)

SpecNF == Init /\ [][NextNF]_vars

\* the same system with database faults in the jobs
NextF ==
  \/ Next
  \/ \E w \in Workers : Fault(w) /\ UNCHANGED <<throttleVars, carried, exportVars, envVars>>

SpecF == Init /\ [][NextF]_vars

\* ================================================================== claims
RECURSIVE ApprovedQty(_)
ApprovedQty(log) ==
  IF log = <<>> THEN 0
  ELSE (IF Head(log).ok THEN Head(log).quantity ELSE 0) + ApprovedQty(Tail(log))

RECURSIVE RequestedQty(_)
RequestedQty(log) ==
  IF log = <<>> THEN 0 ELSE Head(log).quantity + RequestedQty(Tail(log))

\* the reservations of `log` run one after the other on a stock of s: does each
\* have the outcome the log records, and what stock is left
RECURSIVE SerialRun(_, _)
SerialRun(s, log) ==
  IF log = <<>> THEN [agrees |-> TRUE, left |-> s]
  ELSE LET e == Head(log)
           fits == s >= e.quantity
           rest == SerialRun(IF fits THEN s - e.quantity ELSE s, Tail(log)) IN
       [agrees |-> (e.ok = fits) /\ rest.agrees, left |-> rest.left]

Quiescent ==
  /\ \A w \in Workers : worker[w].pc = "idle"
  /\ \A c \in Clients : client[c].pc = "idle"
  /\ \A o \in OrderIds : queue[o] = 0

\* C1: for every product, the quantities of the reservations that succeeded since
\* the product's stock was last set sum to at most that stock, whatever the
\* interleaving of the jobs.
C1_NoOverselling ==
  \A p \in Products : ApprovedQty(resLog[p]) <= base[p]

\* two jobs in flight at once have both been through the reservation of one
\* product, they asked for more than it held, and one of them got its quantity
C1_Witness ==
  \E p \in Products :
    /\ \A w \in Workers : worker[w].pc = "final" /\ worker[w].order.product = p
    /\ Len(resLog[p]) = 2
    /\ RequestedQty(resLog[p]) > base[p]
    /\ ApprovedQty(resLog[p]) > 0

\* C2: the reservations of a product are serializable: their outcomes and the
\* stock left are those of running them one at a time in commit order; and with
\* stock MaxStock and two orders of MaxQty each (10 and 6, 6), once both jobs are
\* done exactly one order is approved, the other failed, and MaxStock - MaxQty
\* is left.
C2_Serializable ==
  \A p \in Products :
    /\ SerialRun(base[p], resLog[p]).agrees
    /\ SerialRun(base[p], resLog[p]).left = stock[p]
    /\ ( /\ Quiescent
         /\ TotalAccepted = 0
         /\ base[p] = MaxStock
         /\ Len(resLog[p]) = 2
         /\ \A i \in 1..2 : resLog[p][i].quantity = MaxQty
         /\ 2 * MaxQty > MaxStock /\ MaxQty <= MaxStock )
       => /\ stock[p] = MaxStock - MaxQty
          /\ \E a, f \in DOMAIN orders :
               /\ {a, f} = {resLog[p][1].oid, resLog[p][2].oid}
               /\ orders[a].status = "approved"
               /\ orders[f].status = "failed"
               /\ orders[a].has_been_processed /\ orders[f].has_been_processed

\* stock 10, two orders of 6 that were in their jobs at the same time: done
C2_Witness ==
  \E p \in Products :
    /\ Quiescent
    /\ TotalAccepted = 0
    /\ base[p] = 10 /\ stock[p] = 4
    /\ Len(resLog[p]) = 2
    /\ \A i \in 1..2 : resLog[p][i].quantity = 6
    /\ resLog[p][1].oid # resLog[p][2].oid

\* C3: a product's stock_quantity is never negative.
C3_StockNonNegative ==
  \A p \in Products : stock[p] >= 0

\* a reservation has taken the last unit, and an upload row has been processed
C3_Witness ==
  \E p \in Products :
    /\ stock[p] = 0
    /\ ApprovedQty(resLog[p]) > 0
    /\ nUploads > 0

Terminal(row) == row.has_been_processed /\ row.status \in {"approved", "failed"}

\* process_order returns in this step, for an order that exists
Returns(w) ==
  /\ worker[w].pc # "idle"
  /\ worker'[w].pc = "idle"
  /\ worker[w].oid \in DOMAIN orders'

PipelineTransitions ==
  {<<"pending", "processing">>, <<"processing", "approved">>,
   <<"processing", "failed">>, <<"failed", "pending">>}

\* C5: every change of an order's persisted status is pending->processing,
\* processing->approved, processing->failed or the retry reset failed->pending.
C5_OnlyPipelineTransitions ==
  [][\A o \in DOMAIN orders :
       orders'[o].status # orders[o].status
         => <<orders[o].status, orders'[o].status>> \in PipelineTransitions]_vars

\* a step of a retry request (API or admin): only those change `client`
RetryStep == client' # client

\* C6: a retry takes effect only on an order whose status is failed and whose
\* has_been_processed is true; on an order in any other state a retry step
\* changes neither status nor flag, accepts nothing and submits no job.
C6_RetryOnlyWhenFailed ==
  [][RetryStep =>
       \A o \in DOMAIN orders :
         ~Retryable(orders[o]) =>
           /\ orders'[o] = orders[o]
           /\ accepted'[o] = accepted[o]
           /\ submitted'[o] = submitted[o]]_vars

\* the process_order jobs of order o that are submitted and have not returned
InFlight(o) ==
  queue[o] + Cardinality({w \in Workers : worker[w].pc # "idle" /\ worker[w].oid = o})

\* C7: at no time are two process_order jobs in flight for the same order.
C7_AtMostOneInFlight ==
  \A o \in OrderIds : InFlight(o) <= 1

WaitedOneToken ==
  /\ TokensToAdd(focus, waited) >= OneToken
  /\ TokensToAdd(focus, waited) < 2 * OneToken

\* C9: for a fresh identity on a limiter of capacity C and rate R, of the calls
\* made in immediate succession the first C are admitted and every later one is
\* denied; when the burst went past C and 1 / R seconds then pass (any wait
\* from 1 / R up to, not including, 2 / R), exactly the first call after the
\* wait is admitted and the calls that follow it at once are denied.
C9_BurstAndRefill ==
  /\ phase = "burst" =>
       /\ burst.admitted = Min(burst.calls, focus.capacity)
       /\ allowed = (burst.calls <= focus.capacity)
  /\ phase \in {"wait", "after"} =>
       /\ burst.calls > focus.capacity
       /\ burst.admitted = focus.capacity
  /\ (phase = "after" /\ WaitedOneToken) =>
       /\ after.admitted = 1
       /\ allowed = (after.calls = 1)

\* the instance: 50 of 51 rapid calls admitted on the orders limiter, then a
\* wait of 1.2 s (2 ticks of 0.6 s), then one call admitted and the next denied
C9_Witness ==
  /\ focus = OrdersThrottle
  /\ phase = "after"
  /\ burst = [calls |-> 51, admitted |-> 50]
  /\ waited * SecondsPerMinute * 10 = 12 * TicksPerMinute
  /\ after = [calls |-> 2, admitted |-> 1]
  /\ allowed = FALSE

\* C10: every bucket stored in the cache has 0 <= tokens <= capacity, whatever
\* the clock returned.
C10_TokensInRange ==
  \A key \in DOMAIN cache :
    /\ cache[key].tokens >= 0
    /\ cache[key].tokens <= CapacityUnits(focus)

\* C11: no token is spent twice: the requests admitted on a bucket since it
\* was created number at most the tokens it has had, its capacity and what
\* the elapsed time refilled; with one token available two concurrent requests
\* are not both admitted.
C11_NoTokenSpentTwice ==
  admits * OneToken <= CapacityUnits(focus) + TokensToAdd(focus, lifetime)

ObservedKey == CacheKey(Observed[1], Observed[2])
OtherKey == CacheKey(OtherCaller[1], OtherCaller[2])

\* C12: the calls of one identity on one limiter touch only its own bucket:
\* every other bucket (another identity, or the same identity on another
\* limiter) is stored exactly as in the run in which those calls did not
\* happen, and every call of the others got the answer it gets in that run.
C12_BucketsIndependent ==
  /\ agree
  /\ ObservedKey \notin DOMAIN shadow
  /\ DOMAIN cache \ {ObservedKey} = DOMAIN shadow
  /\ \A key \in DOMAIN shadow : cache[key] = shadow[key]

\* user_1 has drained the exports bucket and then, on the orders limiter, was
\* admitted until that bucket was empty too, and denied
C12_Witness ==
  /\ focus = OrdersThrottle
  /\ ObservedKey \in DOMAIN cache /\ cache[ObservedKey].tokens < OneToken
  /\ OtherKey \in DOMAIN shadow /\ shadow[OtherKey].tokens < OneToken
  /\ caller = OtherCaller
  /\ allowed = FALSE

\* C13: a call of allow_request by a superuser is admitted and leaves the
\* cache as it is, whatever bucket the user has.
C13_SuperuserBypasses ==
  [][\A c \in Callers :
       (c[2] \in superusers /\ caller' = c /\ AllowRequestAny(c[1], c[2]))
         => (allowed' = TRUE /\ cache' = cache)]_vars

\* user_2 emptied the exports bucket, was denied, became a superuser and has
\* called again
C13_Witness ==
  /\ "user_2" \in superusers
  /\ caller = <<ExportsThrottle, "user_2">>
  /\ nMoves = 0
  /\ CacheKey(ExportsThrottle, "user_2") \in DOMAIN cache
  /\ cache[CacheKey(ExportsThrottle, "user_2")].tokens < OneToken
  /\ allowed = TRUE

\* C19 as stated: a bucket is in the cache exactly until 1 hour after it was
\* created, whatever requests came in between.
C19_ExpiresOneHourAfterCreation ==
  ObservedKey \in DOMAIN cache =>
    ((Lookup(cache, ObservedKey) # NoBucket) <=> (lifetime < TimeoutTicks))

\* C19, amended: a bucket is in the cache exactly until 1 hour after the last
\* request of its identity that reached the bucket: every such request, admitted
\* or denied, restarts the timeout.
C19_ExpiresOneHourAfterLastRequest ==
  ObservedKey \in DOMAIN cache =>
    /\ cache[ObservedKey].age = sinceCall
    /\ (Lookup(cache, ObservedKey) # NoBucket) <=> (sinceCall < TimeoutTicks)

\* a bucket created an hour ago and used half an hour ago is still there
C19_Witness ==
  /\ ObservedKey \in DOMAIN cache
  /\ lifetime >= TimeoutTicks
  /\ sinceCall > 0 /\ sinceCall < TimeoutTicks
  /\ Lookup(cache, ObservedKey) # NoBucket

\* a retry request has read order o and not yet written
RetryPending(o) ==
  \E c \in Clients : client[c].pc # "idle" /\ o \in client[c].todo

\* an operation of the system can still move order o on: a job of it is queued
\* or running, a retry would be accepted or is under way, or it is pending (the
\* admin action approve_orders applies)
CanMoveOn(o) ==
  \/ InFlight(o) > 0
  \/ Retryable(orders[o])
  \/ RetryPending(o)
  \/ orders[o].status = "pending"

\* C14: whatever faults struck its jobs, an order is approved or failed, or an
\* operation of the system (a job run, a permitted retry) can still move it on.
C14_FaultLeavesResumable ==
  \A o \in DOMAIN orders :
    orders[o].status \in {"approved", "failed"} \/ CanMoveOn(o)

C15_NotPendingAfterJob ==
  \A e \in DOMAIN exports :
    /\ xresult[e] # "none" => exports[e].status # "pending"
    /\ xresult[e] = "generated" => exports[e].status = "ready"
    /\ xresult[e] = "error" => exports[e].status = "failed" /\ exports[e].note # ""

\* C16: the file generate_export writes holds the header line and then exactly
\* one line for each order that exists and whose id is in the list handed to
\* the job: an id twice in the list, or the id of no order, adds no line, and
\* no order outside the list has a line.
C16_OneRowPerDistinctExistingId ==
  [][\A e \in ExportIds :
       storage'[e] # storage[e] =>
         LET listed == {o \in DOMAIN orders : \E i \in DOMAIN xworker.ids : xworker.ids[i] = o}
             lines == storage'[e]
         IN /\ lines[1] = HeaderRow
            /\ Len(lines) = 1 + Cardinality(listed)
            /\ \A o \in listed : \E i \in 2..Len(lines) : lines[i][1] = o
            /\ \A i \in 2..Len(lines) : lines[i][1] \in listed]_vars

\* a file written for a list with an id twice and the id of no order, while an
\* order outside the list exists
C16_Witness ==
  /\ xworker.pc = "stored"
  /\ xworker.ids = <<2, 2, MaxOrders + 1>>
  /\ Len(orders) = 2
  /\ Len(storage[xworker.eid]) = 2
  /\ storage[xworker.eid][2][1] = 2

\* C17: an export row whose status is ready refers to a file, and that file
\* is in storage with its header line.
C17_ReadyHasStoredFile ==
  \A e \in DOMAIN exports :
    exports[e].status = "ready" =>
      /\ exports[e].file \in ExportIds
      /\ storage[exports[e].file] # <<>>
      /\ storage[exports[e].file][1] = HeaderRow

\* a ready export whose file lists an order
C17_Witness ==
  /\ Len(exports) = 1
  /\ exports[1].status = "ready"
  /\ exports[1].file = 1
  /\ Len(storage[1]) > 1
  /\ xresult[1] = "generated"

\* C18: a request that submits a job ends with the row written and the job on
\* the broker, and no more: in the step that completes an order creation, a
\* retry or an export request, no worker moves, the order is pending (the
\* export pending, without file), and its job is among the messages not yet
\* taken.
C18_RequestsDoNotWaitForJobs ==
  [][/\ \A o \in DOMAIN orders' :
          (o \notin DOMAIN orders \/ accepted'[o] > accepted[o]) =>
            /\ orders'[o].status = "pending"
            /\ queue'[o] = queue[o] + 1
            /\ worker' = worker
            /\ stock' = stock
     /\ \A e \in (DOMAIN exports') \ (DOMAIN exports) :
          /\ exports'[e].status = "pending"
          /\ \E job \in xqueue' \ xqueue : job.eid = e
          /\ xworker' = xworker
          /\ storage' = storage]_vars

\* A creation, a retry and an export request have all been answered while no
\* worker has taken the jobs they submitted
C18_Witness ==
  /\ Len(orders) = 2
  /\ accepted[1] = 1
  /\ orders[1].status = "pending"
  /\ queue[1] = 1
  /\ queue[2] = 1
  /\ submitted[2] = 1
  /\ \A w \in Workers : worker[w].pc = "idle"
  /\ Len(exports) = 1
  /\ exports[1].status = "pending"
  /\ xqueue # {}
  /\ xworker.pc = "idle"

\* a step in which worker w leaves the atomic block of the approval branch
LeavesAtomicBlock(w) == worker[w].pc = "reserve" /\ worker'[w].pc = "final"

\* a step in which worker w saves the outcome and process_order returns
SavesOutcome(w) ==
  /\ worker[w].pc = "final"
  /\ worker'[w].pc = "idle"
  /\ worker'[w].result = "processed"

\* C24: in the approval branch, when the stock of the locked product is below
\* the order's quantity the stock stays as it is and the order ends failed;
\* otherwise the stock goes down by exactly the quantity and the order ends
\* approved.
C24_ShortageOverridesApproval ==
  [][\A w \in Workers :
       LET p == worker[w].order.product
           q == worker[w].order.quantity IN
       /\ LeavesAtomicBlock(w) =>
            IF stock[p] < q
              THEN stock' = stock /\ worker'[w].order.status = "failed"
              ELSE /\ stock' = [stock EXCEPT ![p] = stock[p] - q]
                   /\ worker'[w].order.status = "approved"
       /\ (SavesOutcome(w) /\ worker[w].decision = "approve") =>
            /\ orders'[worker[w].oid].status = worker[w].order.status
            /\ orders'[worker[w].oid].status \in {"approved", "failed"}]_vars

\* the stock sufficed for the first order and not for the second, both in the
\* approval branch
C24_Witness ==
  /\ Len(orders) = 2
  /\ orders[1].status = "approved" /\ orders[1].has_been_processed
  /\ orders[2].status = "failed" /\ orders[2].has_been_processed
  /\ \E p \in Products :
       /\ Len(resLog[p]) = 2
       /\ resLog[p][1].oid = 1 /\ resLog[p][1].ok
       /\ resLog[p][2].oid = 2 /\ ~resLog[p][2].ok
       /\ stock[p] = base[p] - orders[1].quantity
       /\ stock[p] < orders[2].quantity

\* a step of worker w while its job is on the failure decision
FailureBranchStep(w) ==
  /\ worker'[w] # worker[w]
  /\ worker[w].decision = "fail" \/ worker'[w].decision = "fail"

\* C25: from the failure decision on, no step of the job takes a product row
\* lock, reads a stock or changes one, and the save that ends the job persists
\* the order failed with has_been_processed true.
C25_FailureDecisionTouchesNoStock ==
  [][\A w \in Workers :
       /\ FailureBranchStep(w) =>
            /\ stock' = stock
            /\ lock' = lock
            /\ resLog' = resLog
            /\ worker'[w].pstock = 0
       /\ (SavesOutcome(w) /\ worker[w].decision = "fail") =>
            /\ orders'[worker[w].oid].status = "failed"
            /\ orders'[worker[w].oid].has_been_processed]_vars

\* an order failed by decision: processed, the stock as it was, nothing
\* reserved
C25_Witness ==
  /\ Len(orders) = 1
  /\ orders[1].status = "failed" /\ orders[1].has_been_processed
  /\ \A p \in Products : stock[p] = MaxStock /\ resLog[p] = <<>>
  /\ nUploads = 0
  /\ \E w \in Workers : worker[w].result = "processed"

\* process_order jobs for order o that a worker is running
Running(o) == {w \in Workers : worker[w].pc # "idle" /\ worker[w].oid = o}

\* the stock of product p was decremented for order o
DecrementedFor(p, o) == \E i \in DOMAIN resLog[p] : resLog[p][i].oid = o /\ resLog[p][i].ok

\* C26: once no process_order job is running for an order, whether its last
\* job returned its outcome or returned through the exception handler, the
\* stock has been decremented for the order only if its persisted status is
\* approved.
C26_DeductedOnlyIfApproved ==
  \A o \in DOMAIN orders, p \in Products :
    (Running(o) = {} /\ DecrementedFor(p, o)) => orders[o].status = "approved"

\* the times the stock of product p was decremented for order o
Decrements(p, o) ==
  Cardinality({i \in DOMAIN resLog[p] : resLog[p][i].oid = o /\ resLog[p][i].ok})

\* C27: whatever the sequence of creations, job runs (a message delivered twice
\* included) and retries, the stock is decremented for an order at most once,
\* and by its quantity.
C27_DecrementedAtMostOnce ==
  \A o \in DOMAIN orders, p \in Products :
    /\ Decrements(p, o) <= 1
    /\ \A i \in DOMAIN resLog[p] :
         (resLog[p][i].oid = o /\ resLog[p][i].ok) => resLog[p][i].quantity = orders[o].quantity

\* C28: the persisted has_been_processed of an order goes from false to true
\* only in the step in which a job saves its outcome, approved or failed, and
\* every job that saves its outcome leaves it true: no earlier step of a job
\* (the save as processing, the atomic block) sets it.
C28_FlagSetWithOutcome ==
  [][/\ \A o \in DOMAIN orders :
          (~orders[o].has_been_processed /\ orders'[o].has_been_processed) =>
            /\ \E w \in Workers : SavesOutcome(w) /\ worker[w].oid = o
            /\ orders'[o].status \in {"approved", "failed"}
     /\ \A w \in Workers :
          SavesOutcome(w) => orders'[worker[w].oid].has_been_processed]_vars

\* C29: in every state, an order whose persisted has_been_processed is true has
\* persisted status approved or failed.
C29_ProcessedImpliesTerminalStatus ==
  \A o \in DOMAIN orders :
    orders[o].has_been_processed => orders[o].status \in {"approved", "failed"}

\* a step in which worker w takes the decision of tasks.py 38, having set the
\* status to processing
Decides(w) == worker[w].decision = "none" /\ worker'[w].decision # "none"

\* C30: the step in which a job takes its decision has persisted the order
\* with status processing, and a job saves an outcome only after that step:
\* between the order as the job found it and the outcome the job persists,
\* the table holds the order as processing.
C30_ProcessingBeforeOutcome ==
  [][\A w \in Workers :
       /\ Decides(w) =>
            /\ orders'[worker[w].oid].status = "processing"
            /\ orders'[worker[w].oid] = [worker[w].order EXCEPT !.status = "processing"]
       /\ (worker'[w] # worker[w] /\ worker[w].pc # "idle" /\ worker[w].decision = "none") =>
            (Decides(w) \/ (orders' = orders /\ worker'[w].result # "processed"))
       /\ SavesOutcome(w) => worker[w].decision # "none"]_vars

\* a job that went from pending through processing to an outcome, and a job
\* stopped by a fault before it saved anything
C30_Witness ==
  /\ Len(orders) = 2
  /\ orders[1].status \in {"approved", "failed"} /\ orders[1].has_been_processed
  /\ orders[2].status = "pending"
  /\ submitted[2] = 1 /\ queue[2] = 0
  /\ \E w \in Workers : worker[w].result = "processed"
  /\ \E w \in Workers : worker[w].result = "error"
  /\ \A w \in Workers : worker[w].pc = "idle"

\* C23: every order is created with a reference code the server generated, no
\* two orders have the same code, and no step (a job, a retry, the admin
\* approve action, another creation) changes the code of an order that exists.
C23_ReferenceCodeUniqueAndFixed ==
  [][/\ \A o \in (DOMAIN orders') \ (DOMAIN orders) :
          \E n \in RefCodes : orders'[o].reference_code = RefCode(n)
     /\ \A o1, o2 \in DOMAIN orders' :
          orders'[o1].reference_code = orders'[o2].reference_code => o1 = o2
     /\ \A o \in DOMAIN orders :
          /\ o \in DOMAIN orders'
          /\ orders'[o].reference_code = orders[o].reference_code]_vars

\* Two orders with their own codes, after a request that carried a code of the
\* client's making; the first order has been processed, retried and approved
\* by hand
C23_Witness ==
  /\ Len(orders) = 2
  /\ orders[1].reference_code = RefCode(2)
  /\ orders[2].reference_code = RefCode(1)
  /\ carried.reference_code = <<"MINE-", 1>> /\ "reference_code" \in carried.given
  /\ accepted[1] = 1
  /\ orders[1].status = "approved" /\ ~orders[1].has_been_processed

\* the two catalogues hold the same products of the company, each as active
SameOwnProducts(company, cat, other) ==
  \A p \in Catalogue :
    (cat[p].company = company \/ other[p].company = company) => other[p] = cat[p]

\* what the product request in flight is answered when the Product table is cat
ProductAnswer(cat) ==
  IF api.endpoint = "products.list"
    THEN ProductList(api.profile, cat)
    ELSE ProductDetail(api.profile, cat, api.arg.product)

\* C21: a product request of a user with a profile is answered from the active
\* products of the user's own company only: the list is exactly those, the
\* detail of a product of another company is 404, and the answer is the same
\* for every Product table that agrees on the products of that company.
C21_ProductsOfOwnCompanyOnly ==
  [][(api.pc = "admitted" /\ api.endpoint \in ProductEndpoints /\ api'.pc = "idle") =>
       LET own == profiles[api.user].company
           answer == [code |-> response'.code, body |-> response'.body] IN
       /\ profiles[api.user].exists
       /\ api.endpoint = "products.list" =>
            /\ answer.code = 200
            /\ answer.body = {p \in Catalogue : catalogue[p].company = own /\ catalogue[p].is_active}
       /\ (api.endpoint = "products.retrieve" /\ catalogue[api.arg.product].company # own) =>
            answer = [code |-> 404, body |-> {}]
       /\ \A other \in Catalogues :
            SameOwnProducts(own, catalogue, other) => ProductAnswer(other) = answer]_vars

\* The list of u1 is the one product of its company although the other company
\* holds two active products, one of them taken over by an upload
C21_Witness ==
  /\ response.endpoint = "products.list"
  /\ response.user = "u1"
  /\ response.code = 200
  /\ response.body = {"p1"}
  /\ catalogue["p2"] = ProductRow("c2", TRUE)
  /\ catalogue["p3"] = ProductRow("c2", TRUE)
  /\ nUploads = 1

\* a request begins: its permissions are checked and it is admitted or answered
BeginsRequest == nApi' = nApi + 1

\* a request creates an order or has a retry accepted
WritesOrder == api.pc # "idle" /\ (Len(orders') > Len(orders) \/ accepted' # accepted)

\* every request of a user whose profile is blocked is answered 403, whatever
\* the endpoint and whether or not the limiter would have let it through
BlockedIsRefused ==
  BeginsRequest =>
    IF api'.pc = "admitted"
      THEN profiles[api'.user].exists /\ ~profiles[api'.user].is_blocked
      ELSE /\ api' = api
           /\ response'.code \in {403, 429}
           /\ profiles[response'.user].is_blocked => response'.code = 403
           /\ UNCHANGED <<orders, queue, submitted, accepted, creator>>

\* C22: a blocked user is refused by every endpoint with 403, and no
\* order is created or retried for a user whose profile is blocked at that
\* moment.
C22_NoOrderWhileBlocked ==
  [][/\ BlockedIsRefused
     /\ WritesOrder => ~profiles[api.user].is_blocked]_vars

\* the locks a worker holds
LocksHeld(w) == {p \in Products : lock[p] = w}

\* C31: with the jobs run fairly and no fault, every order with a job in the
\* broker becomes approved or failed with has_been_processed set; a job that
\* waits for a product row lock gets it; and a job holds at most one lock,
\* only inside its transaction.
C31_SubmittedOrdersFinish ==
  /\ \A o \in OrderIds : (queue[o] > 0) ~> (o \in DOMAIN orders /\ Terminal(orders[o]))
  /\ \A w \in Workers : (worker[w].pc = "lock") ~> (worker[w].pc = "reserve")
  /\ [](\A w \in Workers :
          /\ Cardinality(LocksHeld(w)) <= 1
          /\ LocksHeld(w) # {} => worker[w].pc = "reserve")

\* Both workers are at the locked read of the same product, one inside its
\* transaction and the other waiting for the row
C31_Witness ==
  /\ worker[1].pc = "reserve" /\ worker[2].pc = "lock"
  /\ worker[1].order.product = worker[2].order.product
  /\ worker[1].oid # worker[2].oid
  /\ lock[worker[1].order.product] = 1

\* a worker takes the message of an id that has no order
TakesMissing(o) == queue'[o] < queue[o] /\ o \notin DOMAIN orders

\* C32: process_order run for an id that has no order returns the not-found
\* result at once: no order, stock or lock changes, no message is added to the
\* broker, and the worker is free again.
C32_MissingOrderJobChangesNothing ==
  [][\A o \in OrderIds : TakesMissing(o) =>
       /\ UNCHANGED <<orders, stock, lock, submitted, accepted, exports, storage, xqueue>>
       /\ queue' = [queue EXCEPT ![o] = @ - 1]
       /\ \E w \in Workers :
            /\ worker[w].pc = "idle"
            /\ worker' = [worker EXCEPT ![w] = Idle("not_found")]]_vars

\* A worker has returned not-found for id 2 while the only order was being
\* processed by the other worker, which went on to approve it
C32_Witness ==
  /\ Len(orders) = 1
  /\ worker[2] = Idle("not_found")
  /\ worker[1] = Idle("processed")
  /\ orders[1].status = "approved" /\ orders[1].has_been_processed
  /\ stock["p1"] = MaxStock - orders[1].quantity
  /\ queue = [o \in OrderIds |-> 0]

\* the job a step of worker w belongs to: the one it runs, or the one it takes
JobOf(w) == IF worker[w].pc = "idle" THEN worker'[w] ELSE worker[w]

\* C33: a step of a process_order job leaves the stock of every product other
\* than the product of its order, and every order other than its own,
\* unchanged.
C33_JobTouchesOwnProductAndOrderOnly ==
  [][\A w \in Workers : worker'[w] # worker[w] =>
       /\ DOMAIN orders' = DOMAIN orders
       /\ JobOf(w).pc # "idle" =>
            /\ \A p \in Products : p # JobOf(w).order.product => stock'[p] = stock[p]
            /\ \A o \in DOMAIN orders : o # JobOf(w).oid => orders'[o] = orders[o]
       /\ JobOf(w).pc = "idle" => UNCHANGED <<stock, orders>>]_vars

\* Worker 1 has deducted the first order from its product and not yet saved
\* the outcome; the second order, for the other product, is being processed by
\* worker 2, and its product still has the full stock
C33_Witness ==
  /\ Len(orders) = 2
  /\ orders[1].product = "p1" /\ orders[2].product = "p2"
  /\ worker[1].pc = "final" /\ worker[1].oid = 1 /\ worker[1].order.status = "approved"
  /\ worker[2].pc = "lock" /\ worker[2].oid = 2
  /\ stock["p1"] = MaxStock - orders[1].quantity
  /\ stock["p2"] = MaxStock
  /\ orders[1].status = "processing" /\ orders[2].status = "processing"

\* min(capacity, stored + elapsed * refill_rate) for the entry b of limiter l,
\* in units of 1 / TicksPerMinute token
Refilled(l, b) == Min(l.capacity * OneToken, b.tokens + b.age * l.per_minute)

\* C34: allow_request on an existing bucket stores the refilled count and the
\* current time when it denies, and the refilled count minus exactly one token
\* and the current time when it admits; it denies exactly when the refilled
\* count is below one token.
C34_StoresRefilledCount ==
  [][\A l \in Limiters, u \in Users :
       (AllowRequest(l, u) /\ CacheGet(CacheKey(l, u)) # NoBucket) =>
         LET key == CacheKey(l, u)
             refilled == Refilled(l, cache[key]) IN
         /\ allowed' = (refilled >= OneToken)
         /\ ~allowed' => cache'[key] = [tokens |-> refilled, age |-> 0]
         /\ allowed' => cache'[key] = [tokens |-> refilled - OneToken, age |-> 0]]_vars

\* A denied request has just stored the part of a token that accrued since the
\* previous denied request
C34_Witness ==
  /\ cache # <<>>
  /\ phase = "after"
  /\ allowed = FALSE
  /\ LET b == cache[CacheKey(focus, "user_1")] IN
     b.age = 0 /\ b.tokens > 0 /\ b.tokens < OneToken

\* ------------------------------------------------------------------- C35
\* C35: denied requests do not delay the refill. An interval that began when a
\* call emptied the bucket, with no admission since, however many denied calls
\* it holds: a call made when at least 1 / refill_rate has passed in it is
\* admitted.
C35_DeniedCallsKeepRefill ==
  [][\A l \in Limiters, u \in Users :
       (AllowRequestInWindow(l, u) /\ window.zero /\ window.admitted = 0
          /\ window.ticks >= TokenTicks(l))
       => allowed' = TRUE]_vars

\* two denied calls, then the call at 1 / refill_rate after the bucket was
\* emptied, admitted and leaving the bucket empty again
C35_Witness ==
  /\ window.zero
  /\ window.calls = 3
  /\ window.admitted = 1
  /\ window.ticks = TokenTicks(focus)
  /\ focus = ExportsThrottle
  /\ allowed = TRUE
  /\ LET b == CacheGet(CacheKey(focus, "user_1")) IN
     b # NoBucket /\ b.age = 0 /\ b.tokens = 0

\* ------------------------------------------------------------------- C36
\* C36: rate bound. The calls of one identity admitted in an interval of
\* length T are at most capacity + T * refill_rate, also when the bucket
\* expires from the cache inside the interval.
C36_RateBound ==
  window.admitted * OneToken
    <= CapacityUnits(focus) + TokensToAdd(focus, window.ticks)

\* an interval in which the bucket expired: more calls than the capacity were
\* admitted in it, the last of them on the bucket made anew
C36_Witness ==
  /\ window.ticks >= TimeoutTicks
  /\ window.admitted > focus.capacity
  /\ allowed = TRUE
  /\ LET b == CacheGet(CacheKey(focus, "user_1")) IN
     b # NoBucket /\ b.age = 0 /\ b.tokens < FirstTokens(focus)

\* ------------------------------------------------------------------- C37
\* cache.get of a cache whose entries never expire
LookupNoExpiry(c, key) == IF key \in DOMAIN c THEN c[key] ELSE NoBucket

\* C37: cache expiry is unobservable for the configured limiters. Every call
\* gives the answer, and stores the bucket, that the same limiter gives on the
\* same cache with entries that never expire; the two caches being equal after
\* each call, the answers are equal for every sequence of request times.
C37_ExpiryUnobservable ==
  [][\A l \in Limiters, u \in Users :
       AllowRequestInWindow(l, u) =>
         LET key == CacheKey(l, u)
             d == Decision(l, LookupNoExpiry(cache, key)) IN
         /\ allowed' = d.allow
         /\ cache'[key] = [tokens |-> d.tokens, age |-> 0]]_vars

\* a bucket emptied, expired after the cache timeout and made anew by the next
\* call
C37_Witness ==
  /\ window.zero
  /\ window.ticks >= TimeoutTicks
  /\ window.calls = 1
  /\ window.admitted = 1
  /\ LET b == CacheGet(CacheKey(focus, "user_1")) IN
     b # NoBucket /\ b.age = 0 /\ b.tokens = FirstTokens(focus)

\* ------------------------------------------------------------------- C38
\* C38: generate_export for an id that has no export row returns "not found"
\* and changes nothing: whenever the job of such an id leaves the queue, no
\* export row, stored file, order or product has changed, the worker has
\* taken nothing up and the result recorded for the id is "not found".
C38_MissingExportJobChangesNothing ==
  [][\A job \in xqueue :
       (job.eid \notin DOMAIN exports /\ job \notin xqueue')
       => /\ UNCHANGED <<exports, storage, xworker, pipelineVars>>
          /\ xqueue' = xqueue \ {job}
          /\ xresult'[job.eid] = "not_found"]_vars

\* the job of a missing id has returned while an export row is pending and
\* orders exist
C38_Witness ==
  /\ \E eid \in MissingExportIds : eid \in DOMAIN xresult /\ xresult[eid] = "not_found"
  /\ Len(exports) = 1 /\ exports[1].status = "pending"
  /\ DOMAIN orders # {}
  /\ xworker.pc = "loaded"

\* ------------------------------------------------------------------- C39
\* C39: within one run of generate_export the status of its export changes at
\* most once: a row the running job has saved as ready stays ready in every
\* later step of that run.
C39_ReadyStaysReadyInRun ==
  [][\A e \in DOMAIN exports :
       (xworker.pc # "idle" /\ xworker.eid = e /\ exports[e].status = "ready")
       => exports'[e].status = "ready"]_vars

====
